---- MODULE Spec2Model ----
(***************************************************************************)
(* GCP resource detector of opentelemetry-cpp                              *)
(* (detectors/gcp/.../internal/resource_detector_impl.h).                  *)
(*                                                                         *)
(* Strings the code inspects character by character (header names and      *)
(* values, JSON string leaves, environment values) are sequences of        *)
(* one-character strings.  Strings the code only builds and compares as a  *)
(* whole (messages, URLs, platform names) are sequences of longer chunks.  *)
(* In both cases std::string::empty() is equality with <<>>.               *)
(***************************************************************************)
EXTENDS Integers, Sequences, FiniteSets, TLC

VARIABLES
    attributes_,   \* GcpResourceDetector::attributes_ (the cache)
    retry_,        \* GcpResourceDetector::retry_ (the injected Retry instance)
    url_,          \* GcpResourceDetector::url_
    options,       \* the GcpDetectorOptions the detector was made with
    env,           \* the process environment read by the Parser
    threads,       \* the threads that call Detect() on the detector
    pc,            \* per thread: position inside Detect()
    result,        \* per thread: the local QmsResult of RetryLoop
    ret,           \* per thread: what the last Detect() call returned
    response,      \* per thread: the last answer of the HTTP client
    attempts,      \* per thread: QmsOnce calls made by the current Detect()
    asked,         \* per thread: OnRetry calls made by the current Detect()
    granted,       \* per thread: OnRetry calls of the current Detect() that returned true
    logged,        \* per thread: log entries emitted by the current Detect()
    calls,         \* number of Detect() calls started on the detector
    failures,      \* number of Detect() calls that ended in failure
    successes,     \* number of Detect() calls that returned a detected set
    requests,      \* number of HTTP requests issued by the detector
    sent,          \* the distinct requests handed to the HTTP client
    slept,         \* the delays the retry policy has slept, in order
    firstSuccess,  \* what the first successful Detect() call returned
    requestsAtFirstSuccess,  \* value of requests when that call returned
    input,         \* a function called on its own: its name and arguments
    output,        \* what that function returned
    writes,        \* number of assignments made to attributes_
    overlapped     \* two threads have been inside Detect() at the same time

vars == <<attributes_, retry_, url_, options, env, threads, pc, result, ret, response,
          attempts, asked, granted, logged, calls, failures, successes,
          requests, sent, slept, firstSuccess, requestsAtFirstSuccess,
          input, output, writes, overlapped>>

----------------------------------------------------------------------------
(* Bounds of the model. *)

\* Detect() calls made on one detector.
MaxCalls == 3
\* Largest retry count given to the test policy LimitedErrorCountRetry.
MaxRetries == 3

Threads == {1, 2}

----------------------------------------------------------------------------
(* Characters and strings. *)

UpperCase == <<"A","B","C","D","E","F","G","H","I","J","K","L","M",
               "N","O","P","Q","R","S","T","U","V","W","X","Y","Z">>
LowerCase == <<"a","b","c","d","e","f","g","h","i","j","k","l","m",
               "n","o","p","q","r","s","t","u","v","w","x","y","z">>

\* The carriage return character '\r'.
CR == "\r"

LowerOf ==
    [c \in {UpperCase[i] : i \in 1..26} |->
        LowerCase[CHOOSE i \in 1..26 : UpperCase[i] = c]]

\* std::tolower in the "C" locale.
tolower(c) == IF c \in DOMAIN LowerOf THEN LowerOf[c] ELSE c

\* std::string::npos, the size_t value -1: Npos + 1 wraps around to 0.
Npos == -1

\* value.rfind(c): 0-based position of the last c, or npos.
Rfind(value, c) ==
    IF \E i \in 1..Len(value) : value[i] = c
    THEN (CHOOSE i \in 1..Len(value) :
             value[i] = c /\ \A j \in (i+1)..Len(value) : value[j] # c) - 1
    ELSE Npos

\* value.substr(pos, n) for pos <= size(); n = npos takes the rest.
Substr(value, pos, n) ==
    LET count == IF n = Npos \/ n > Len(value) - pos THEN Len(value) - pos ELSE n
    IN  SubSeq(value, pos + 1, pos + count)

\* value.find(prefix) == 0
StartsWith(value, prefix) ==
    /\ Len(prefix) <= Len(value)
    /\ SubSeq(value, 1, Len(prefix)) = prefix

RECURSIVE NatDigits(_)
NatDigits(n) ==
    LET d == <<"0","1","2","3","4","5","6","7","8","9">>[(n % 10) + 1]
    IN  IF n < 10 THEN <<d>> ELSE Append(NatDigits(n \div 10), d)

\* std::to_string of an integer.
to_string(n) == IF n < 0 THEN <<"-">> \o NatDigits(-n) ELSE NatDigits(n)

\* 64-bit integers.  An integer is its sign neg and its magnitude mag, four
\* 16-bit limbs with the most significant first; frac tells that the number
\* (a double) has a fractional part besides.
LimbBase == 2^16

\* The magnitude k, for 0 <= k < 2^31.
Limbs(k) == <<0, 0, k \div LimbBase, k % LimbBase>>

Integer64(neg, mag) == [neg |-> neg, mag |-> mag, frac |-> FALSE]

\* 2^64 - mag, for 0 < mag < 2^64.
Complement64(mag) ==
    LET c  == [i \in 1..4 |-> LimbBase - 1 - mag[i]]
        s4 == c[4] + 1
        s3 == c[3] + s4 \div LimbBase
        s2 == c[2] + s3 \div LimbBase
        s1 == c[1] + s2 \div LimbBase
    IN  <<s1 % LimbBase, s2 % LimbBase, s3 % LimbBase, s4 % LimbBase>>

\* Quotient and remainder of the magnitude mag by ten.
DivMod10(mag) ==
    LET c1 == mag[1]
        c2 == (c1 % 10) * LimbBase + mag[2]
        c3 == (c2 % 10) * LimbBase + mag[3]
        c4 == (c3 % 10) * LimbBase + mag[4]
    IN  [q |-> <<c1 \div 10, c2 \div 10, c3 \div 10, c4 \div 10>>, r |-> c4 % 10]

\* The decimal digits of the magnitude mag.  The argument is taken by
\* value: it is bound once, as the element m of a one-element set.
RECURSIVE MagDigits(_)
MagDigits(mag) ==
    CHOOSE digits \in
        {LET dm == DivMod10(m)
             d  == <<"0","1","2","3","4","5","6","7","8","9">>[dm.r + 1]
         IN  IF dm.q = <<0, 0, 0, 0>> THEN <<d>> ELSE Append(MagDigits(dm.q), d)
         : m \in {mag}} : TRUE

\* std::to_string of a std::int64_t.
to_string_int64(v) == IF v.neg THEN <<"-">> \o MagDigits(v.mag) ELSE MagDigits(v.mag)

\* Mutant: the search for '/' starts at the front of the string.
TailAfterFirstSlash(value) ==
    LET slashes == {i \in 1..Len(value) : value[i] = "/"}
    IN  IF slashes = {} THEN value
        ELSE SubSeq(value, (CHOOSE i \in slashes : \A j \in slashes : i <= j) + 1,
                    Len(value))

\* Tail(value) of the source; Sequences already defines an operator Tail.
\* The function takes its argument by value, as the source does.
TailId(value) ==
    LET tail == [v \in {value} |-> Substr(v, Rfind(v, "/") + 1, Npos)]
    IN  tail[value]

\* ToLower: the characters other than '\r', each through std::tolower.
ToLower(s) ==
    LET kept == SelectSeq(s, LAMBDA c : c # CR)
    IN  [i \in 1..Len(kept) |-> tolower(kept[i])]

----------------------------------------------------------------------------
(* JSON values (nlohmann::json).  Every node has the same fields: its type *)
(* t, its characters s (strings), its value n (numbers) and its members    *)
(* kids (objects); the elements of an array are never read by the code.    *)

NoKids == [k \in {} |-> 0]

\* The field n of a node that is no number.
NoNumber == Integer64(FALSE, <<0, 0, 0, 0>>)

JString(s)   == [t |-> "string", s |-> s, n |-> NoNumber, kids |-> NoKids]
\* A number the parser read: number_unsigned for an integer from 0 to
\* 2^64 - 1, number_integer for a negative integer down to -2^63,
\* number_float for every other number.
JNumber(t, v) == [t |-> t, s |-> <<>>, n |-> v, kids |-> NoKids]
\* The integer k, for -2^31 < k < 2^31.
JInteger(k)  ==
    IF k >= 0 THEN JNumber("number_unsigned", Integer64(FALSE, Limbs(k)))
    ELSE JNumber("number_integer", Integer64(TRUE, Limbs(-k)))
JObject(f)   == [t |-> "object", s |-> <<>>, n |-> NoNumber, kids |-> f]
JArray       == [t |-> "array", s |-> <<>>, n |-> NoNumber, kids |-> NoKids]
JNull        == [t |-> "null", s |-> <<>>, n |-> NoNumber, kids |-> NoKids]
\* The value json::parse(body, nullptr, false) returns for a malformed body.
JDiscarded   == [t |-> "discarded", s |-> <<>>, n |-> NoNumber, kids |-> NoKids]

is_string(json) == json.t = "string"
is_number(json) == json.t \in {"number_integer", "number_unsigned", "number_float"}
is_object(json) == json.t = "object"

\* json.find(key) != json.end(): only an object has members to find.
Contains(json, key) == is_object(json) /\ key \in DOMAIN json.kids

\* json.get<std::int64_t>(): a static_cast of the stored value.  A
\* std::uint64_t from 2^63 on comes out 2^64 lower; a double loses its
\* fractional part.
get_int64(json) ==
    IF json.t = "number_unsigned" /\ json.n.mag[1] >= LimbBase \div 2
    THEN Integer64(TRUE, Complement64(json.n.mag))
    ELSE Integer64(json.n.neg, json.n.mag)

\* Mutant: at a key that is not found, the node reached so far is returned
\* when it is a string.
RECURSIVE FindRecursiveNearest(_, _)
FindRecursiveNearest(json, keys) ==
    IF keys = <<>>
    THEN IF is_string(json) THEN json.s
         ELSE IF is_number(json) THEN to_string_int64(get_int64(json))
         ELSE <<>>
    ELSE IF ~Contains(json, Head(keys))
         THEN IF is_string(json) THEN json.s ELSE <<>>
         ELSE FindRecursiveNearest(json.kids[Head(keys)], Tail(keys))

RECURSIVE FindRecursive(_, _)
FindRecursive(json, keys) ==
    IF keys = <<>>
    THEN IF is_string(json) THEN json.s
         ELSE IF is_number(json) THEN to_string_int64(get_int64(json))
         ELSE <<>>
    ELSE IF ~Contains(json, Head(keys)) THEN <<>>
         ELSE FindRecursive(json.kids[Head(keys)], Tail(keys))

----------------------------------------------------------------------------
(* One fetch of the metadata server. *)

s_content_type     == <<"c","o","n","t","e","n","t","-","t","y","p","e">>
s_application_json == <<"a","p","p","l","i","c","a","t","i","o","n","/","j","s","o","n">>
s_metadata_flavor  == <<"m","e","t","a","d","a","t","a","-","f","l","a","v","o","r">>
s_google           == <<"g","o","o","g","l","e">>

\* Mutant: one of the two headers is enough.
ValidateHeadersEither(headers) ==
    LET valid_content_type ==
            \E i \in 1..Len(headers) :
                /\ ToLower(headers[i][1]) = s_content_type
                /\ StartsWith(ToLower(headers[i][2]), s_application_json)
        valid_metadata_flavor ==
            \E i \in 1..Len(headers) :
                /\ ToLower(headers[i][1]) = s_metadata_flavor
                /\ ToLower(headers[i][2]) = s_google
    IN  valid_content_type \/ valid_metadata_flavor

\* ValidateHeaders; headers is the sequence ForEachHeader walks through.
ValidateHeaders(headers) ==
    LET valid_content_type ==
            \E i \in 1..Len(headers) :
                /\ ToLower(headers[i][1]) = s_content_type
                /\ StartsWith(ToLower(headers[i][2]), s_application_json)
        valid_metadata_flavor ==
            \E i \in 1..Len(headers) :
                /\ ToLower(headers[i][1]) = s_metadata_flavor
                /\ ToLower(headers[i][2]) = s_google
    IN  valid_content_type /\ valid_metadata_flavor

\* Mutant: the project key is not looked for.
ValidateJsonAnyObject(json) == is_object(json)

ValidateJson(json) == is_object(json) /\ Contains(json, "project")

\* Mutant: the configured endpoint is ignored.
UrlFromEndpointDefault(endpoint) ==
    <<"http://metadata.google.internal">> \o <<"/computeMetadata/v1/?recursive=true">>

\* UrlFromEndpoint
UrlFromEndpoint(endpoint) == endpoint \o <<"/computeMetadata/v1/?recursive=true">>

\* struct QmsResult, default constructed.
QmsResult == [error |-> <<>>, retry |-> FALSE, json |-> JNull]

\* Mutant: 500 itself is not retried.
QmsMapStatusAbove500(c) ==
    IF c >= 200 /\ c < 300
    THEN QmsResult
    ELSE [QmsResult EXCEPT !.retry = (c < 200 \/ c = 429 \/ c > 500),
                           !.error = <<"HTTP code=">> \o to_string(c)]

QmsMapStatus(c) ==
    IF c >= 200 /\ c < 300
    THEN QmsResult
    ELSE [QmsResult EXCEPT !.retry = (c < 200 \/ c = 429 \/ c >= 500),
                           !.error = <<"HTTP code=">> \o to_string(c)]

\* ToString(SessionState) of the source; TLC already defines ToString.
SessionStateToString(state) ==
    IF state \in {"CreateFailed", "Created", "Destroyed", "Connecting",
                  "ConnectFailed", "Connected", "Sending", "SendFailed",
                  "Response", "SSLHandshakeFailed", "TimedOut", "NetworkError",
                  "ReadError", "WriteError", "Cancelled"}
    THEN state
    ELSE "Unknown"

\* ext::http::client::Result::operator bool: a response was received.
ResultOk(res) == res.state = "Response"

\* Mutant: a transport failure is marked retryable.
TransportErrorRetried(res) ==
    [QmsResult EXCEPT !.error = <<"SessionState: ", SessionStateToString(res.state)>>,
                      !.retry = TRUE]

\* QmsOnce, "if (!result)": the outcome of a request that got no response.
TransportError(res) ==
    [QmsResult EXCEPT !.error = <<"SessionState: ", SessionStateToString(res.state)>>,
                      !.retry = FALSE]

\* Mutant: the headers are validated before the status code is looked at.
QmsOnceHeadersFirst(res) ==
    IF ~ResultOk(res)
    THEN TransportError(res)
    ELSE IF ~ValidateHeaders(res.headers)
    THEN [QmsResult EXCEPT
             !.error = <<"response headers do not match expectations">>,
             !.retry = TRUE]
    ELSE LET status == QmsMapStatus(res.status)
         IN  IF status.error # <<>> THEN status
             ELSE IF ~ValidateJson(res.body)
             THEN [QmsResult EXCEPT
                      !.error = <<"returned payload does not match expectation.">>,
                      !.retry = TRUE]
             ELSE [QmsResult EXCEPT !.json = res.body]

\* Mutant: the failure of the header check carries the document of the body.
QmsOnceKeepsDocument(res) ==
    IF ~ResultOk(res)
    THEN TransportError(res)
    ELSE LET status == QmsMapStatus(res.status)
         IN  IF status.error # <<>> THEN status
             ELSE IF ~ValidateHeaders(res.headers)
             THEN [QmsResult EXCEPT
                      !.json = res.body,
                      !.error = <<"response headers do not match expectations">>,
                      !.retry = TRUE]
             ELSE IF ~ValidateJson(res.body)
             THEN [QmsResult EXCEPT
                      !.error = <<"returned payload does not match expectation.">>,
                      !.retry = TRUE]
             ELSE [QmsResult EXCEPT !.json = res.body]

\* QmsOnce, given the answer res of client->GetNoSsl(url, headers).
QmsOnce(res) ==
    IF ~ResultOk(res)
    THEN TransportError(res)
    ELSE LET status == QmsMapStatus(res.status)
         IN  IF status.error # <<>> THEN status
             ELSE IF ~ValidateHeaders(res.headers)
             THEN [QmsResult EXCEPT
                      !.error = <<"response headers do not match expectations">>,
                      !.retry = TRUE]
             ELSE IF ~ValidateJson(res.body)
             THEN [QmsResult EXCEPT
                      !.error = <<"returned payload does not match expectation.">>,
                      !.retry = TRUE]
             ELSE [QmsResult EXCEPT !.json = res.body]

\* The request QmsOnce hands to the client.
Request(url) == [method |-> "GET", url |-> url,
                 headers |-> << <<"Metadata-Flavor", "Google">> >>]

----------------------------------------------------------------------------
(* Retry policies. *)

\* Mutant: the last two delays change places.
backoffs_Swapped == <<1, 4, 2>>

\* DefaultRetry::backoffs_
backoffs_ == <<1, 2, 4>>

\* MakeDefaultRetry(): it_ = backoffs_.begin()
MakeDefaultRetry ==
    [kind |-> "DefaultRetry", it_ |-> 1, current_ |-> 0, retries_ |-> 0]

\* LimitedErrorCountRetry(retries) of the tests.
LimitedErrorCountRetry(retries) ==
    [kind |-> "LimitedErrorCountRetry", it_ |-> 1, current_ |-> 0,
     retries_ |-> retries]

\* Mutant: the policy gives up one delay early.
DefaultOnRetryEarly(r) ==
    IF r.it_ >= Len(backoffs_)
    THEN [value |-> FALSE, sleep |-> <<>>, state |-> r]
    ELSE [value |-> TRUE, sleep |-> <<backoffs_[r.it_]>>,
          state |-> [r EXCEPT !.it_ = r.it_ + 1]]

\* Mutant: the policy never runs out of delays.
DefaultOnRetryForever(r) ==
    [value |-> TRUE, sleep |-> <<backoffs_[1]>>, state |-> r]

\* Mutant: the policy sleeps once more before it refuses.
DefaultOnRetrySleepsThenRefuses(r) ==
    IF r.it_ = Len(backoffs_) + 1
    THEN [value |-> FALSE, sleep |-> <<backoffs_[Len(backoffs_)]>>, state |-> r]
    ELSE [value |-> TRUE, sleep |-> <<backoffs_[r.it_]>>,
          state |-> [r EXCEPT !.it_ = r.it_ + 1]]

\* Mutant: the policy starts over after it has refused.
DefaultOnRetryRewinds(r) ==
    IF r.it_ = Len(backoffs_) + 1
    THEN [value |-> FALSE, sleep |-> <<>>, state |-> [r EXCEPT !.it_ = 1]]
    ELSE [value |-> TRUE, sleep |-> <<backoffs_[r.it_]>>,
          state |-> [r EXCEPT !.it_ = r.it_ + 1]]

\* DefaultRetry::OnRetry: the value returned, the delay slept, the state left.
DefaultOnRetry(r) ==
    IF r.it_ = Len(backoffs_) + 1
    THEN [value |-> FALSE, sleep |-> <<>>, state |-> r]
    ELSE [value |-> TRUE, sleep |-> <<backoffs_[r.it_]>>,
          state |-> [r EXCEPT !.it_ = r.it_ + 1]]

\* LimitedErrorCountRetry::OnRetry: return current_++ < retries_;
LimitedOnRetry(r) ==
    [value |-> r.current_ < r.retries_, sleep |-> <<>>,
     state |-> [r EXCEPT !.current_ = r.current_ + 1]]

\* retry->OnRetry(), dispatched on the dynamic type.
OnRetry(r) ==
    IF r.kind = "DefaultRetry" THEN DefaultOnRetry(r) ELSE LimitedOnRetry(r)

\* Mutant: RetryLoop asks the policy after every attempt.
ConsultsPolicyAlways(r) == TRUE

\* RetryLoop: "if (!result.retry || !retry->OnRetry()) break;" asks the
\* policy only when the first operand of || is false.
ConsultsPolicy(r) == r.retry

----------------------------------------------------------------------------
(* Parser: metadata and environment to resource attributes. *)

EnvNames == {"KUBERNETES_SERVICE_HOST", "FUNCTION_TARGET", "K_CONFIGURATION",
             "GAE_SERVICE", "K_SERVICE", "K_REVISION", "GAE_VERSION",
             "GAE_INSTANCE"}

\* sdk::common::GetStringEnvironmentVariable(name, value): whether the variable
\* is present; value is then e[name].value.
GetStringEnvironmentVariable(e, name) == e[name].set

\* ResourceAttributes, default constructed.
EmptyAttributes == [k \in {} |-> <<>>]

\* Mutant: the value is stored even when it is empty.
SetAttributeAlways(attrs, key, value) ==
    [k \in DOMAIN attrs \cup {key} |-> IF k = key THEN value ELSE attrs[k]]

\* Parser::SetAttribute
SetAttribute(attrs, key, value) ==
    IF value = <<>>
    THEN attrs
    ELSE (key :> value) @@ attrs

\* Parser::SetEnvAttribute
SetEnvAttribute(attrs, key, e, name) ==
    IF GetStringEnvironmentVariable(e, name)
    THEN SetAttribute(attrs, key, e[name].value)
    ELSE attrs

\* Parser::Metadata
Metadata(metadata, keys) == FindRecursive(metadata, keys)

\* std::count(s.begin(), s.end(), c)
Count(s, c) == Cardinality({i \in 1..Len(s) : s[i] = c})

\* Mutant: one hyphen is taken for a zone, two for a region.
GkeSwapped(attrs, metadata, e) ==
    LET a1 == SetAttribute(attrs, "cloud.platform", <<"gcp_kubernetes_engine">>)
        a2 == SetAttribute(a1, "k8s.cluster.name",
                  Metadata(metadata, <<"instance", "attributes", "cluster-name">>))
        a3 == SetAttribute(a2, "host.id", Metadata(metadata, <<"instance", "id">>))
        cluster_location ==
            TailId(Metadata(metadata, <<"instance", "attributes", "cluster-location">>))
        hyphen_count == Count(cluster_location, "-")
    IN  IF hyphen_count = 2
        THEN SetAttribute(a3, "cloud.region", cluster_location)
        ELSE IF hyphen_count = 1
        THEN SetAttribute(a3, "cloud.availability_zone", cluster_location)
        ELSE a3

\* Parser::Gke
Gke(attrs, metadata, e) ==
    LET a1 == SetAttribute(attrs, "cloud.platform", <<"gcp_kubernetes_engine">>)
        a2 == SetAttribute(a1, "k8s.cluster.name",
                  Metadata(metadata, <<"instance", "attributes", "cluster-name">>))
        a3 == SetAttribute(a2, "host.id", Metadata(metadata, <<"instance", "id">>))
        cluster_location ==
            TailId(Metadata(metadata, <<"instance", "attributes", "cluster-location">>))
        hyphen_count == Count(cluster_location, "-")
    IN  IF hyphen_count = 1
        THEN SetAttribute(a3, "cloud.region", cluster_location)
        ELSE IF hyphen_count = 2
        THEN SetAttribute(a3, "cloud.availability_zone", cluster_location)
        ELSE a3

CloudFunctions(attrs, metadata, e) ==
    LET a1 == SetAttribute(attrs, "cloud.platform", <<"gcp_cloud_functions">>)
        a2 == SetEnvAttribute(a1, "faas.name", e, "K_SERVICE")
        a3 == SetEnvAttribute(a2, "faas.version", e, "K_REVISION")
    IN  SetAttribute(a3, "faas.instance", Metadata(metadata, <<"instance", "id">>))

\* Mutant: Cloud Run takes faas.name from GAE_SERVICE.
CloudRunFromGae(attrs, metadata, e) ==
    LET a1 == SetAttribute(attrs, "cloud.platform", <<"gcp_cloud_run">>)
        a2 == SetEnvAttribute(a1, "faas.name", e, "GAE_SERVICE")
        a3 == SetEnvAttribute(a2, "faas.version", e, "K_REVISION")
    IN  SetAttribute(a3, "faas.instance", Metadata(metadata, <<"instance", "id">>))

\* Parser::CloudRun
CloudRun(attrs, metadata, e) ==
    LET a1 == SetAttribute(attrs, "cloud.platform", <<"gcp_cloud_run">>)
        a2 == SetEnvAttribute(a1, "faas.name", e, "K_SERVICE")
        a3 == SetEnvAttribute(a2, "faas.version", e, "K_REVISION")
    IN  SetAttribute(a3, "faas.instance", Metadata(metadata, <<"instance", "id">>))

\* The zone and region assignments shared by Gae and Gce.
SetZoneAndRegion(attrs, metadata) ==
    LET zone == TailId(Metadata(metadata, <<"instance", "zone">>))
        a1   == SetAttribute(attrs, "cloud.availability_zone", zone)
        pos  == Rfind(zone, "-")
    IN  SetAttribute(a1, "cloud.region", Substr(zone, 0, pos))

\* Mutant: the App Engine branch also records the instance id as host.id.
GaeWithHostId(attrs, metadata, e) ==
    LET a1 == SetAttribute(attrs, "cloud.platform", <<"gcp_app_engine">>)
        a2 == SetEnvAttribute(a1, "faas.name", e, "GAE_SERVICE")
        a3 == SetEnvAttribute(a2, "faas.version", e, "GAE_VERSION")
        a4 == SetEnvAttribute(a3, "faas.instance", e, "GAE_INSTANCE")
        a5 == SetAttribute(a4, "host.id", Metadata(metadata, <<"instance", "id">>))
    IN  SetZoneAndRegion(a5, metadata)

Gae(attrs, metadata, e) ==
    LET a1 == SetAttribute(attrs, "cloud.platform", <<"gcp_app_engine">>)
        a2 == SetEnvAttribute(a1, "faas.name", e, "GAE_SERVICE")
        a3 == SetEnvAttribute(a2, "faas.version", e, "GAE_VERSION")
        a4 == SetEnvAttribute(a3, "faas.instance", e, "GAE_INSTANCE")
    IN  SetZoneAndRegion(a4, metadata)

Gce(attrs, metadata, e) ==
    LET a1 == SetAttribute(attrs, "cloud.platform", <<"gcp_compute_engine">>)
        a2 == SetAttribute(a1, "host.type",
                  TailId(Metadata(metadata, <<"instance", "machineType">>)))
        a3 == SetAttribute(a2, "host.id", Metadata(metadata, <<"instance", "id">>))
        a4 == SetAttribute(a3, "host.name", Metadata(metadata, <<"instance", "name">>))
    IN  SetZoneAndRegion(a4, metadata)

\* Mutant: K_CONFIGURATION is tested before FUNCTION_TARGET.
ProcessMetadataAndEnvSwapped(metadata, e) ==
    LET a1 == SetAttribute(EmptyAttributes, "cloud.provider", <<"gcp">>)
        a2 == SetAttribute(a1, "cloud.account.id",
                  Metadata(metadata, <<"project", "projectId">>))
    IN  IF GetStringEnvironmentVariable(e, "KUBERNETES_SERVICE_HOST")
        THEN Gke(a2, metadata, e)
        ELSE IF GetStringEnvironmentVariable(e, "K_CONFIGURATION")
        THEN CloudRun(a2, metadata, e)
        ELSE IF GetStringEnvironmentVariable(e, "FUNCTION_TARGET")
        THEN CloudFunctions(a2, metadata, e)
        ELSE IF GetStringEnvironmentVariable(e, "GAE_SERVICE")
        THEN Gae(a2, metadata, e)
        ELSE IF Metadata(metadata, <<"instance", "machineType">>) # <<>>
        THEN Gce(a2, metadata, e)
        ELSE a2

\* Mutant: the Compute Engine branch is never taken.
ProcessMetadataAndEnvNoGce(metadata, e) ==
    LET a1 == SetAttribute(EmptyAttributes, "cloud.provider", <<"gcp">>)
        a2 == SetAttribute(a1, "cloud.account.id",
                  Metadata(metadata, <<"project", "projectId">>))
    IN  IF GetStringEnvironmentVariable(e, "KUBERNETES_SERVICE_HOST")
        THEN Gke(a2, metadata, e)
        ELSE IF GetStringEnvironmentVariable(e, "FUNCTION_TARGET")
        THEN CloudFunctions(a2, metadata, e)
        ELSE IF GetStringEnvironmentVariable(e, "K_CONFIGURATION")
        THEN CloudRun(a2, metadata, e)
        ELSE IF GetStringEnvironmentVariable(e, "GAE_SERVICE")
        THEN Gae(a2, metadata, e)
        ELSE a2

\* Mutant: cloud.account.id is not set.
ProcessMetadataAndEnvNoAccount(metadata, e) ==
    LET a2 == SetAttribute(EmptyAttributes, "cloud.provider", <<"gcp">>)
    IN  IF GetStringEnvironmentVariable(e, "KUBERNETES_SERVICE_HOST")
        THEN Gke(a2, metadata, e)
        ELSE IF GetStringEnvironmentVariable(e, "FUNCTION_TARGET")
        THEN CloudFunctions(a2, metadata, e)
        ELSE IF GetStringEnvironmentVariable(e, "K_CONFIGURATION")
        THEN CloudRun(a2, metadata, e)
        ELSE IF GetStringEnvironmentVariable(e, "GAE_SERVICE")
        THEN Gae(a2, metadata, e)
        ELSE IF Metadata(metadata, <<"instance", "machineType">>) # <<>>
        THEN Gce(a2, metadata, e)
        ELSE a2

\* Mutant: a platform variable counts only when its value is not empty.
ProcessMetadataAndEnvNonEmpty(metadata, e) ==
    LET a1 == SetAttribute(EmptyAttributes, "cloud.provider", <<"gcp">>)
        a2 == SetAttribute(a1, "cloud.account.id",
                  Metadata(metadata, <<"project", "projectId">>))
        valid(name) == GetStringEnvironmentVariable(e, name) /\ e[name].value # <<>>
    IN  IF valid("KUBERNETES_SERVICE_HOST")
        THEN Gke(a2, metadata, e)
        ELSE IF valid("FUNCTION_TARGET")
        THEN CloudFunctions(a2, metadata, e)
        ELSE IF valid("K_CONFIGURATION")
        THEN CloudRun(a2, metadata, e)
        ELSE IF valid("GAE_SERVICE")
        THEN Gae(a2, metadata, e)
        ELSE IF Metadata(metadata, <<"instance", "machineType">>) # <<>>
        THEN Gce(a2, metadata, e)
        ELSE a2

\* Mutant: the Compute Engine branch is taken without the test of machineType.
ProcessMetadataAndEnvAlwaysGce(metadata, e) ==
    LET a1 == SetAttribute(EmptyAttributes, "cloud.provider", <<"gcp">>)
        a2 == SetAttribute(a1, "cloud.account.id",
                  Metadata(metadata, <<"project", "projectId">>))
    IN  IF GetStringEnvironmentVariable(e, "KUBERNETES_SERVICE_HOST")
        THEN Gke(a2, metadata, e)
        ELSE IF GetStringEnvironmentVariable(e, "FUNCTION_TARGET")
        THEN CloudFunctions(a2, metadata, e)
        ELSE IF GetStringEnvironmentVariable(e, "K_CONFIGURATION")
        THEN CloudRun(a2, metadata, e)
        ELSE IF GetStringEnvironmentVariable(e, "GAE_SERVICE")
        THEN Gae(a2, metadata, e)
        ELSE Gce(a2, metadata, e)

\* Mutant: cloud.provider is not set.
ProcessMetadataAndEnvNoProvider(metadata, e) ==
    LET a2 == SetAttribute(EmptyAttributes, "cloud.account.id",
                  Metadata(metadata, <<"project", "projectId">>))
    IN  IF GetStringEnvironmentVariable(e, "KUBERNETES_SERVICE_HOST")
        THEN Gke(a2, metadata, e)
        ELSE IF GetStringEnvironmentVariable(e, "FUNCTION_TARGET")
        THEN CloudFunctions(a2, metadata, e)
        ELSE IF GetStringEnvironmentVariable(e, "K_CONFIGURATION")
        THEN CloudRun(a2, metadata, e)
        ELSE IF GetStringEnvironmentVariable(e, "GAE_SERVICE")
        THEN Gae(a2, metadata, e)
        ELSE IF Metadata(metadata, <<"instance", "machineType">>) # <<>>
        THEN Gce(a2, metadata, e)
        ELSE a2

\* Parser::ProcessMetadataAndEnv, starting from the empty attributes_.
ProcessMetadataAndEnv(metadata, e) ==
    LET a1 == SetAttribute(EmptyAttributes, "cloud.provider", <<"gcp">>)
        a2 == SetAttribute(a1, "cloud.account.id",
                  Metadata(metadata, <<"project", "projectId">>))
    IN  IF GetStringEnvironmentVariable(e, "KUBERNETES_SERVICE_HOST")
        THEN Gke(a2, metadata, e)
        ELSE IF GetStringEnvironmentVariable(e, "FUNCTION_TARGET")
        THEN CloudFunctions(a2, metadata, e)
        ELSE IF GetStringEnvironmentVariable(e, "K_CONFIGURATION")
        THEN CloudRun(a2, metadata, e)
        ELSE IF GetStringEnvironmentVariable(e, "GAE_SERVICE")
        THEN Gae(a2, metadata, e)
        ELSE IF Metadata(metadata, <<"instance", "machineType">>) # <<>>
        THEN Gce(a2, metadata, e)
        ELSE a2

\* Mutant: the attribute set is handed over after its first attribute.
ParserProviderOnly(metadata, e) ==
    SetAttribute(EmptyAttributes, "cloud.provider", <<"gcp">>)

\* Parser parser(metadata); std::move(parser).Attributes()
Parser(metadata, e) == ProcessMetadataAndEnv(metadata, e)

----------------------------------------------------------------------------
(* The inputs: metadata documents, response headers, responses of the      *)
(* server, environments, endpoints.                                        *)

Obj1(k1, v1) == JObject([k \in {k1} |-> v1])

DocProject == Obj1("projectId", JString(<<"t","p">>))

\* The payload of the tests Gce and CachesAttributes.
DocGce ==
    JObject([k \in {"instance", "project"} |->
        IF k = "project" THEN DocProject
        ELSE JObject([f \in {"id", "machineType", "name", "zone"} |->
                 CASE f = "id" -> JInteger(1020)
                   [] f = "machineType" -> JString(<<"p","/","m","/","c","2","d">>)
                   [] f = "name" -> JString(<<"v","m">>)
                   [] f = "zone" -> JString(<<"p","/","z","/","u","s","-","c","1","-","a">>)])])

\* The payload of the test GkeRegion.
DocGke ==
    JObject([k \in {"instance", "project"} |->
        IF k = "project" THEN DocProject
        ELSE JObject([f \in {"id", "attributes"} |->
                 IF f = "id" THEN JInteger(1020)
                 ELSE JObject([g \in {"cluster-name", "cluster-location"} |->
                          IF g = "cluster-name" THEN JString(<<"t","c">>)
                          ELSE JString(<<"p","/","r","/","u","s","-","c","1">>)])])])

\* kWrongTypeJson of the test HandlesBadJson.
DocWrongType ==
    JObject([k \in {"instance", "project"} |->
        IF k = "project" THEN DocProject ELSE JArray])

\* A document whose project has no projectId.
DocBare == Obj1("project", JObject(NoKids))

\* kWrongStructureJson of the test HandlesBadJson: machineType is an object.
DocWrongStructure ==
    JObject([k \in {"instance", "project"} |->
        IF k = "project" THEN DocProject
        ELSE Obj1("machineType", Obj1("unexpected", JInteger(5)))])

\* The payload of the tests CloudFunctions and CloudRun.
DocFaas ==
    JObject([k \in {"instance", "project"} |->
        IF k = "project" THEN DocProject ELSE Obj1("id", JInteger(1020))])

\* The payload of the test Gae.
DocGae ==
    JObject([k \in {"instance", "project"} |->
        IF k = "project" THEN DocProject ELSE Obj1("zone", JString(<<"p","/","z","/","u","s","-","c","1","-","a">>))])

\* Documents whose machineType is the empty string, and a number.
DocEmptyMachineType ==
    JObject([k \in {"instance", "project"} |->
        IF k = "project" THEN DocProject ELSE Obj1("machineType", JString(<<>>))])
DocNumericMachineType ==
    JObject([k \in {"instance", "project"} |->
        IF k = "project" THEN DocProject ELSE Obj1("machineType", JInteger(7))])

ValidBodies == {DocGce, DocGke, DocWrongType, DocBare}

\* A GKE document whose cluster-location is the JSON value loc.
DocGkeAt(loc) ==
    JObject([k \in {"instance", "project"} |->
        IF k = "project" THEN DocProject
        ELSE JObject([f \in {"id", "attributes"} |->
                 IF f = "id" THEN JInteger(1020)
                 ELSE JObject([g \in {"cluster-name", "cluster-location"} |->
                          IF g = "cluster-name" THEN JString(<<"t","c">>) ELSE loc])])])

\* Cluster locations: the zone of the test GkeZone, and locations with no
\* slash, no hyphen, three hyphens, a hyphen before the last slash only, no
\* characters, and a negative number.
ClusterLocations ==
    {JString(<<"p","/","z","/","u","s","-","c","1","-","a">>), JString(<<"u","s","-","c","1">>), JString(<<"p","/","x">>),
     JString(<<"p","/","a","-","b","-","c","-","d">>), JString(<<"p","-","q","/","r","/","u","s","c">>), JString(<<>>), JInteger(-5)}

\* A document with a machine type whose instance.zone is the JSON value zone.
DocZoneAt(zone) ==
    JObject([k \in {"instance", "project"} |->
        IF k = "project" THEN DocProject
        ELSE JObject([f \in {"machineType", "zone"} |->
                 IF f = "machineType" THEN JString(<<"p","/","m","/","c","2","d">>) ELSE zone])])

\* Zones: with no hyphen, with nothing before the hyphen, with no slash, with
\* a hyphen before the last slash only, with no characters.
Zones ==
    {JString(<<"p","/","z","/","l","o","c","a","l">>), JString(<<"p","/","z","/","-","a">>), JString(<<"u","s","-","c","1","-","a">>),
     JString(<<"p","-","q","/","z","/","e","u">>), JString(<<>>)}

\* The documents handed to the Parser in ParserSpec.
ParserDocs ==
    ValidBodies
    \cup {DocWrongStructure, DocFaas, DocGae, DocEmptyMachineType,
          DocNumericMachineType}
    \cup {DocGkeAt(loc) : loc \in ClusterLocations}
    \cup {DocZoneAt(zone) : zone \in Zones}

\* kMalformedJson, kMissingKeysJson, and roots that are no object.
InvalidBodies == {JDiscarded, JObject(NoKids), JArray, JString(<<"t","p">>),
                  Obj1("instance", DocProject)}

H(name, value) == <<name, value>>

\* The headers of MakeTestDetector.
HeadersGood ==
    << H(<<"M","e","t","a","d","a","t","a","-","F","l","a","v","o","r">>, <<"G","o","o","g","l","e">>),
       H(<<"c","o","n","t","e","n","t","-","t","y","p","e">>, <<"a","p","p","l","i","c","a","t","i","o","n","/","j","s","o","n",";"," ","c">>) >>

\* As HeadersGood, in upper case and lower case.
HeadersUpper ==
    << H(<<"M","E","T","A","D","A","T","A","-","F","L","A","V","O","R">>, <<"G","O","O","G","L","E">>), H(<<"C","O","N","T","E","N","T","-","T","Y","P","E">>, <<"A","P","P","L","I","C","A","T","I","O","N","/","J","S","O","N">>) >>
HeadersLower ==
    << H(<<"c","o","n","t","e","n","t","-","t","y","p","e">>, <<"a","p","p","l","i","c","a","t","i","o","n","/","j","s","o","n">>), H(<<"m","e","t","a","d","a","t","a","-","f","l","a","v","o","r">>, <<"g","o","o","g","l","e">>) >>

\* Header lines that kept the carriage return of their line ending.
HeadersCR ==
    << H(<<"C","o","n","t","e","n","t","-","T","y","p","e">>, <<"a","p","p","l","i","c","a","t","i","o","n","/","j","s","o","n">> \o <<CR>>),
       H(<<"M","e","t","a","d","a","t","a","-","F","l","a","v","o","r">>, <<"G","o","o","g","l","e">> \o <<CR>>) >>

\* bad_headers of the test ValidatesHeaders, and near misses.
HeadersBad ==
    { <<>>,
      << H(<<"c","o","n","t","e","n","t","-","t","y","p","e">>, <<"a","p","p","l","i","c","a","t","i","o","n","/","j","s","o","n">>) >>,
      << H(<<"m","e","t","a","d","a","t","a","-","f","l","a","v","o","r">>, <<"g","o","o","g","l","e">>) >>,
      << H(<<"c","o","n","t","e","n","t","-","t","y","p","e">>, <<"w","r","o","n","g">>), H(<<"m","e","t","a","d","a","t","a","-","f","l","a","v","o","r">>, <<"g","o","o","g","l","e">>) >>,
      << H(<<"c","o","n","t","e","n","t","-","t","y","p","e">>, <<"a","p","p","l","i","c","a","t","i","o","n","/","j","s","o","n">>), H(<<"m","e","t","a","d","a","t","a","-","f","l","a","v","o","r">>, <<"w","r","o","n","g">>) >>,
      << H(<<"c","o","n","t","e","n","t","-","t","y","p","e">>, <<"t","e","x","t","/","a","p","p","l","i","c","a","t","i","o","n","/","j","s","o","n">>), H(<<"m","e","t","a","d","a","t","a","-","f","l","a","v","o","r">>, <<"g","o","o","g","l","e">>) >>,
      << H(<<"c","o","n","t","e","n","t","-","t","y","p","e">>, <<"a","p","p","l","i","c","a","t","i","o","n","/","j","s","o","n">>), H(<<"m","e","t","a","d","a","t","a","-","f","l","a","v","o","r">>, <<"g","o","o","g","l","e","s">>) >>,
      << H(<<"c","o","n","t","e","n","t","-","t","y","p">>, <<"a","p","p","l","i","c","a","t","i","o","n","/","j","s","o","n">>), H(<<"m","e","t","a","d","a","t","a","-","f","l","a","v","o","r">>, <<"g","o","o","g","l","e">>) >>,
      << H(<<"c","o","n","t","e","n","t","-","t","y","p","e">>, <<"g","o","o","g","l","e">>), H(<<"m","e","t","a","d","a","t","a","-","f","l","a","v","o","r">>, <<"a","p","p","l","i","c","a","t","i","o","n","/","j","s","o","n">>) >> }

HeaderSets == {HeadersGood, HeadersUpper, HeadersLower, HeadersCR} \cup HeadersBad

\* HTTP status codes (StatusCode is a uint16_t): both ends of every range of
\* QmsMapStatus, and the codes of the tests.
StatusCodes == {0, 100, 199, 200, 204, 299, 300, 404, 428, 429, 430, 499, 500,
                503, 65535}

SessionFailures == {"ConnectFailed", "TimedOut", "SendFailed"}

Answer(state, status, headers, body) ==
    [state |-> state, status |-> status, headers |-> headers, body |-> body]

\* No request has been made yet.
NoAnswer == Answer("Created", 0, <<>>, JDiscarded)

\* What client->GetNoSsl may return.
Responses ==
    {Answer(s, 0, <<>>, JDiscarded) : s \in SessionFailures}
    \cup {Answer("Response", c, HeadersGood, DocGce) : c \in StatusCodes}
    \cup {Answer("Response", c, <<>>, JDiscarded) : c \in {404, 503}}
    \cup {Answer("Response", 200, h, DocGce) : h \in HeaderSets}
    \cup {Answer("Response", 200, HeadersGood, b) : b \in ValidBodies \cup InvalidBodies}
    \cup {Answer("Response", 200, <<>>, JDiscarded)}

PlatformVars == {"KUBERNETES_SERVICE_HOST", "FUNCTION_TARGET", "K_CONFIGURATION",
                 "GAE_SERVICE"}

EnvValue(name) ==
    CASE name = "K_SERVICE" -> <<"s","v","c">>
      [] name = "K_REVISION" -> <<"r","e","v">>
      [] name = "GAE_SERVICE" -> <<"g","s","v","c">>
      [] name = "GAE_VERSION" -> <<"g","v","e","r">>
      [] name = "GAE_INSTANCE" -> <<"g","i","n","s","t">>
      [] OTHER -> <<"s","e","t">>

\* The environment in which exactly the variables of S are set.
EnvOf(S) ==
    [v \in EnvNames |->
        IF v \in S THEN [set |-> TRUE, value |-> EnvValue(v)]
        ELSE [set |-> FALSE, value |-> <<>>]]

\* The environment in which the variables of S are set, those of E to the
\* empty string.
EnvWith(S, E) ==
    [v \in EnvNames |->
        IF v \in E THEN [set |-> TRUE, value |-> <<>>]
        ELSE IF v \in S THEN [set |-> TRUE, value |-> EnvValue(v)]
        ELSE [set |-> FALSE, value |-> <<>>]]

\* Every combination of the platform variables, each unset, set or set to the
\* empty string, with the other variables all unset, all set or all empty.
AllEnvironments ==
    {EnvWith(P \cup A, PE \cup AE) :
        P \in SUBSET PlatformVars, PE \in SUBSET PlatformVars,
        A \in {{}, EnvNames \ PlatformVars},
        AE \in {{}, EnvNames \ PlatformVars}}

\* The environments a process moves between while its detector is in use.
Environments ==
    {EnvOf({}),
     EnvOf({"KUBERNETES_SERVICE_HOST"}),
     EnvOf({"FUNCTION_TARGET", "K_SERVICE", "K_REVISION"})}

\* GcpDetectorOptions::endpoint: the default and the one of RespectsEndpoint.
Endpoints == { <<"http://metadata.google.internal">>, <<"http://custom.endpoint">> }

\* The retry policies a detector is made with.
Policies == {MakeDefaultRetry} \cup {LimitedErrorCountRetry(n) : n \in 0..MaxRetries}

----------------------------------------------------------------------------
(* The detector. *)

\* Resource::Create(attributes) and Resource::GetEmpty(): the attributes the
\* detector hands over (the SDK's own default attributes are not shown).
Create(attrs) == attrs
GetEmpty == EmptyAttributes

\* Mutant: Detect() without the test of the cache.
UncomputedAlways(attrs) == TRUE

\* Detect(): "if (attributes_.empty())"
Uncomputed(attrs) == DOMAIN attrs = {}

\* MakeGcpDetector(client, retry, options), before any Detect() call.
InitDetector(policy, endpoint) ==
    /\ attributes_ = EmptyAttributes
    /\ retry_ = policy
    /\ options = [endpoint |-> endpoint]
    /\ url_ = UrlFromEndpoint(options.endpoint)
    /\ pc = [t \in Threads |-> "idle"]
    /\ result = [t \in Threads |-> QmsResult]
    /\ ret = [t \in Threads |-> EmptyAttributes]
    /\ response = [t \in Threads |-> NoAnswer]
    /\ attempts = [t \in Threads |-> 0]
    /\ asked = [t \in Threads |-> 0]
    /\ granted = [t \in Threads |-> 0]
    /\ logged = [t \in Threads |-> <<>>]
    /\ calls = 0
    /\ failures = 0
    /\ successes = 0
    /\ requests = 0
    /\ sent = {}
    /\ slept = <<>>
    /\ firstSuccess = <<FALSE, EmptyAttributes>>
    /\ requestsAtFirstSuccess = 0
    /\ writes = 0
    /\ overlapped = FALSE

\* No function is called on its own.
NoCall == <<>>

Init ==
    /\ \E policy \in Policies, endpoint \in Endpoints : InitDetector(policy, endpoint)
    /\ env \in Environments
    /\ threads = {1}
    /\ input = NoCall /\ output = NoCall

detectorVars == <<attributes_, retry_, url_>>

\* A thread is outside Detect().
Outside(t) == pc[t] \in {"idle", "done"}

\* The counters of a Detect() call that starts.
StartCall(t) ==
    /\ calls < MaxCalls
    /\ calls' = calls + 1
    /\ attempts' = [attempts EXCEPT ![t] = 0]
    /\ asked' = [asked EXCEPT ![t] = 0]
    /\ granted' = [granted EXCEPT ![t] = 0]
    /\ logged' = [logged EXCEPT ![t] = <<>>]
    /\ response' = [response EXCEPT ![t] = NoAnswer]
    /\ result' = [result EXCEPT ![t] = QmsResult]
    /\ overlapped' = (overlapped \/ \E u \in threads \ {t} : ~Outside(u))

\* A Detect() call returns the detected attributes attrs.
ReturnDetected(t, attrs) ==
    /\ ret' = [ret EXCEPT ![t] = Create(attrs)]
    /\ pc' = [pc EXCEPT ![t] = "done"]
    /\ successes' = successes + 1
    /\ firstSuccess' = IF firstSuccess[1] THEN firstSuccess ELSE <<TRUE, Create(attrs)>>
    /\ requestsAtFirstSuccess' =
           IF firstSuccess[1] THEN requestsAtFirstSuccess ELSE requests

\* Detect() with attributes_ not empty: the cached set is returned at once.
DetectCached(t) ==
    /\ t \in threads /\ Outside(t)
    /\ ~Uncomputed(attributes_)
    /\ StartCall(t)
    /\ ReturnDetected(t, attributes_)
    /\ UNCHANGED <<writes, input, output, options, detectorVars, env, threads, failures, requests, sent, slept>>

\* Detect() with attributes_ empty: enters RetryLoop.
DetectBegin(t) ==
    /\ t \in threads /\ Outside(t)
    /\ Uncomputed(attributes_)
    /\ StartCall(t)
    /\ pc' = [pc EXCEPT ![t] = "loop"]
    /\ UNCHANGED <<writes, input, output, options, detectorVars, env, threads, ret, failures, successes, requests,
                   sent, slept, firstSuccess, requestsAtFirstSuccess>>

\* One pass of the loop of RetryLoop: result = QmsOnce(client, url), then the
\* first operand of the break condition.
FetchFrom(t, answers) ==
    /\ pc[t] = "loop"
    /\ \E res \in answers :
          LET r == QmsOnce(res)
          IN  /\ response' = [response EXCEPT ![t] = res]
              /\ result' = [result EXCEPT ![t] = r]
              /\ pc' = [pc EXCEPT ![t] = IF ConsultsPolicy(r) THEN "onretry" ELSE "finish"]
    /\ attempts' = [attempts EXCEPT ![t] = attempts[t] + 1]
    /\ requests' = requests + 1
    /\ sent' = sent \cup {Request(url_)}
    /\ UNCHANGED <<writes, overlapped, input, output, options, detectorVars, env, threads, ret, asked, granted, logged, calls,
                   failures, successes, slept, firstSuccess, requestsAtFirstSuccess>>

Fetch(t) == FetchFrom(t, Responses)

\* The second operand of the break condition of RetryLoop: retry->OnRetry().
AskRetry(t) ==
    /\ pc[t] = "onretry"
    /\ LET o == OnRetry(retry_)
       IN  /\ retry_' = o.state
           /\ slept' = slept \o o.sleep
           /\ granted' = [granted EXCEPT ![t] = granted[t] + (IF o.value THEN 1 ELSE 0)]
           /\ pc' = [pc EXCEPT ![t] = IF o.value THEN "loop" ELSE "finish"]
    /\ asked' = [asked EXCEPT ![t] = asked[t] + 1]
    /\ UNCHANGED <<writes, overlapped, input, output, options, attributes_, url_, env, threads, result, ret, response, attempts,
                   logged, calls, failures, successes, requests, sent,
                   firstSuccess, requestsAtFirstSuccess>>

\* Mutant: the log entry leaves out the reason.
LogEntryNoReason(error) ==
    [level |-> "Info",
     msg |-> <<"Could not query the metadata server. status=">> \o <<"\n">>]

\* OTEL_INTERNAL_LOG_INFO of Detect().
LogEntry(error) ==
    [level |-> "Info",
     msg |-> <<"Could not query the metadata server. status=">> \o error \o <<"\n">>]

\* Mutant: Detect() runs the Parser before it looks at the error.
DetectFailParsed(t) ==
    /\ pc[t] = "finish"
    /\ result[t].error # <<>>
    /\ attributes_' = Parser(result[t].json, env)
    /\ writes' = writes + 1
    /\ logged' = [logged EXCEPT ![t] = Append(logged[t], LogEntry(result[t].error))]
    /\ ret' = [ret EXCEPT ![t] = GetEmpty]
    /\ pc' = [pc EXCEPT ![t] = "done"]
    /\ failures' = failures + 1
    /\ UNCHANGED <<overlapped, input, output, options, retry_, url_, env, threads, result, response, attempts, asked,
                   granted, calls, successes, requests, sent, slept,
                   firstSuccess, requestsAtFirstSuccess>>

\* Detect() after RetryLoop returned an error: log and return the empty resource.
DetectFail(t) ==
    /\ pc[t] = "finish"
    /\ result[t].error # <<>>
    /\ logged' = [logged EXCEPT ![t] = Append(logged[t], LogEntry(result[t].error))]
    /\ ret' = [ret EXCEPT ![t] = GetEmpty]
    /\ pc' = [pc EXCEPT ![t] = "done"]
    /\ failures' = failures + 1
    /\ UNCHANGED <<writes, overlapped, input, output, options, detectorVars, env, threads, result, response, attempts, asked,
                   granted, calls, successes, requests, sent, slept,
                   firstSuccess, requestsAtFirstSuccess>>

\* Detect() after RetryLoop returned a document: parse, cache, return.
DetectSucceed(t) ==
    /\ pc[t] = "finish"
    /\ result[t].error = <<>>
    /\ LET attrs == Parser(result[t].json, env)
       IN  /\ attributes_' = attrs
           /\ ReturnDetected(t, attrs)
    /\ writes' = writes + 1
    /\ UNCHANGED <<overlapped, input, output, options, retry_, url_, env, threads, result, response, attempts, asked,
                   granted, logged, calls, failures, requests, sent, slept>>

\* The environment of the process changes (setenv, unsetenv).
SetEnv ==
    /\ \E e \in Environments \ {env} : env' = e
    /\ UNCHANGED <<writes, overlapped, input, output, options, detectorVars, threads, pc, result, ret, response, attempts,
                   asked, granted, logged, calls, failures, successes, requests,
                   sent, slept, firstSuccess, requestsAtFirstSuccess>>

Next ==
    \/ \E t \in Threads : DetectCached(t)
    \/ \E t \in Threads : DetectBegin(t)
    \/ \E t \in Threads : Fetch(t)
    \/ \E t \in Threads : AskRetry(t)
    \/ \E t \in Threads : DetectFail(t)
    \/ \E t \in Threads : DetectSucceed(t)
    \/ SetEnv

Spec == Init /\ [][Next]_vars

----------------------------------------------------------------------------
(* The detector of the public factory MakeGcpDetector(options): the default *)
(* retry policy.  The thread inside Detect() keeps running: GetNoSsl        *)
(* returns, sleep_for ends, and Detect() takes its next step.               *)

InitDefault ==
    /\ \E endpoint \in Endpoints : InitDetector(MakeDefaultRetry, endpoint)
    /\ env \in Environments
    /\ threads = {1}
    /\ input = NoCall /\ output = NoCall

Fairness ==
    \A t \in Threads :
        /\ WF_vars(Fetch(t))
        /\ WF_vars(AskRetry(t))
        /\ WF_vars(DetectFail(t))
        /\ WF_vars(DetectSucceed(t))

FairSpec == InitDefault /\ [][Next]_vars /\ Fairness

----------------------------------------------------------------------------
(* The Parser on its own: Detect() calls on detectors whose first request  *)
(* was answered with a valid document, in every environment.               *)

InitParser ==
    /\ \E doc \in ParserDocs :
          LET res == Answer("Response", 200, HeadersGood, doc)
          IN  /\ response = [t \in Threads |-> IF t = 1 THEN res ELSE NoAnswer]
              /\ result = [t \in Threads |-> IF t = 1 THEN QmsOnce(res) ELSE QmsResult]
    /\ attributes_ = EmptyAttributes
    /\ retry_ = LimitedErrorCountRetry(0)
    /\ options = [endpoint |-> <<"http://metadata.google.internal">>]
    /\ url_ = UrlFromEndpoint(options.endpoint)
    /\ pc = [t \in Threads |-> IF t = 1 THEN "finish" ELSE "idle"]
    /\ ret = [t \in Threads |-> EmptyAttributes]
    /\ attempts = [t \in Threads |-> IF t = 1 THEN 1 ELSE 0]
    /\ asked = [t \in Threads |-> 0]
    /\ granted = [t \in Threads |-> 0]
    /\ logged = [t \in Threads |-> <<>>]
    /\ calls = 1
    /\ failures = 0
    /\ successes = 0
    /\ requests = 1
    /\ sent = {Request(url_)}
    /\ slept = <<>>
    /\ firstSuccess = <<FALSE, EmptyAttributes>>
    /\ requestsAtFirstSuccess = 0
    /\ writes = 0
    /\ overlapped = FALSE
    /\ env \in AllEnvironments
    /\ threads = {1}
    /\ input = NoCall /\ output = NoCall

NextParser ==
    \/ \E t \in Threads : DetectSucceed(t)
    \/ \E t \in Threads : DetectCached(t)

ParserSpec == InitParser /\ [][NextParser]_vars

----------------------------------------------------------------------------
(* Detect() called by two threads without synchronization.  The steps are  *)
(* the reads and writes of the members: the test of attributes_, each      *)
(* GetNoSsl, each OnRetry, the assignment to attributes_, and the copy of  *)
(* attributes_ into the returned Resource.  Two accesses of a member by    *)
(* two threads, one of them a write, that nothing orders are a data race:  *)
(* besides the two orders of the accesses, the value read or left behind   *)
(* may be any other one, shown as Undefined.                               *)

\* An attribute set other than those the Parser builds.
Undefined == SetAttribute(EmptyAttributes, "undefined", <<"undefined">>)

\* What GetNoSsl returns to the two threads: the documents of Compute Engine
\* and Kubernetes Engine, a retryable and a fatal status.
ConcurrentResponses ==
    {Answer("Response", 200, HeadersGood, DocGce),
     Answer("Response", 200, HeadersGood, DocGke),
     Answer("Response", 503, HeadersGood, DocGce),
     Answer("Response", 404, HeadersGood, DocGce)}

InitConcurrent ==
    /\ \E n \in 0..1 :
          InitDetector(LimitedErrorCountRetry(n), <<"http://metadata.google.internal">>)
    /\ env = EnvOf({})
    /\ threads = Threads
    /\ input = NoCall /\ output = NoCall

\* Thread t has a document to parse: RetryLoop returned without an error.
HasDocumentToParse(t) == pc[t] = "finish" /\ result[t].error = <<>>

\* "attributes_ = std::move(parser).Attributes();"
DetectWrite(t) ==
    /\ HasDocumentToParse(t)
    /\ attributes_' = Parser(result[t].json, env)
    /\ writes' = writes + 1
    /\ pc' = [pc EXCEPT ![t] = "written"]
    /\ UNCHANGED <<overlapped, input, output, options, retry_, url_, env, threads, result,
                   ret, response, attempts, asked, granted, logged, calls, failures,
                   successes, requests, sent, slept, firstSuccess,
                   requestsAtFirstSuccess>>

\* "return Resource::Create(attributes_);" after the assignment.
DetectReturn(t) ==
    /\ pc[t] = "written"
    /\ ReturnDetected(t, attributes_)
    /\ UNCHANGED <<writes, overlapped, input, output, options, detectorVars, env, threads,
                   result, response, attempts, asked, granted, logged, calls, failures,
                   requests, sent, slept>>

\* The assignments of two threads race.
RaceWrite(t, u) ==
    /\ t # u /\ HasDocumentToParse(t) /\ HasDocumentToParse(u)
    /\ attributes_' \in {Parser(result[t].json, env), Parser(result[u].json, env),
                         Undefined}
    /\ writes' = writes + 2
    /\ pc' = [pc EXCEPT ![t] = "written", ![u] = "written"]
    /\ UNCHANGED <<overlapped, input, output, options, retry_, url_, env, threads, result,
                   ret, response, attempts, asked, granted, logged, calls, failures,
                   successes, requests, sent, slept, firstSuccess,
                   requestsAtFirstSuccess>>

\* The copy thread t returns races with the assignment of thread u.
RaceReturn(t, u) ==
    /\ t # u /\ pc[t] = "written" /\ HasDocumentToParse(u)
    /\ attributes_' = Parser(result[u].json, env)
    /\ writes' = writes + 1
    /\ \E copy \in {attributes_, attributes_', Undefined} :
          /\ ret' = [ret EXCEPT ![t] = Create(copy)]
          /\ firstSuccess' = IF firstSuccess[1] THEN firstSuccess
                             ELSE <<TRUE, Create(copy)>>
    /\ pc' = [pc EXCEPT ![t] = "done", ![u] = "written"]
    /\ successes' = successes + 1
    /\ requestsAtFirstSuccess' =
           IF firstSuccess[1] THEN requestsAtFirstSuccess ELSE requests
    /\ UNCHANGED <<overlapped, input, output, options, retry_, url_, env, threads, result,
                   response, attempts, asked, granted, logged, calls, failures,
                   requests, sent, slept>>

\* The copy a call of thread t returns from the cache races with the
\* assignment of thread u.
RaceCached(t, u) ==
    /\ t # u /\ t \in threads /\ Outside(t) /\ HasDocumentToParse(u)
    /\ ~Uncomputed(attributes_)
    /\ StartCall(t)
    /\ attributes_' = Parser(result[u].json, env)
    /\ writes' = writes + 1
    /\ \E copy \in {attributes_, attributes_', Undefined} :
          /\ ret' = [ret EXCEPT ![t] = Create(copy)]
          /\ firstSuccess' = IF firstSuccess[1] THEN firstSuccess
                             ELSE <<TRUE, Create(copy)>>
    /\ pc' = [pc EXCEPT ![t] = "done", ![u] = "written"]
    /\ successes' = successes + 1
    /\ requestsAtFirstSuccess' =
           IF firstSuccess[1] THEN requestsAtFirstSuccess ELSE requests
    /\ UNCHANGED <<input, output, options, retry_, url_, env, threads, failures,
                   requests, sent, slept>>

\* The OnRetry calls of two threads race on the state of the policy: both
\* see the same state, and one of the two updates is lost.
RaceOnRetry(t, u) ==
    /\ t # u /\ pc[t] = "onretry" /\ pc[u] = "onretry"
    /\ LET o == OnRetry(retry_)
           next == IF o.value THEN "loop" ELSE "finish"
           n == IF o.value THEN 1 ELSE 0
       IN  /\ retry_' = o.state
           /\ slept' = slept \o o.sleep \o o.sleep
           /\ granted' = [granted EXCEPT ![t] = granted[t] + n, ![u] = granted[u] + n]
           /\ pc' = [pc EXCEPT ![t] = next, ![u] = next]
    /\ asked' = [asked EXCEPT ![t] = asked[t] + 1, ![u] = asked[u] + 1]
    /\ UNCHANGED <<writes, overlapped, input, output, options, attributes_, url_, env,
                   threads, result, ret, response, attempts, logged, calls, failures,
                   successes, requests, sent, firstSuccess, requestsAtFirstSuccess>>

NextConcurrent ==
    \/ \E t \in Threads : DetectCached(t)
    \/ \E t \in Threads : DetectBegin(t)
    \/ \E t \in Threads : FetchFrom(t, ConcurrentResponses)
    \/ \E t \in Threads : AskRetry(t)
    \/ \E t \in Threads : DetectFail(t)
    \/ \E t \in Threads : DetectWrite(t)
    \/ \E t \in Threads : DetectReturn(t)
    \/ \E t, u \in Threads : RaceWrite(t, u)
    \/ \E t, u \in Threads : RaceReturn(t, u)
    \/ \E t, u \in Threads : RaceCached(t, u)
    \/ \E t, u \in Threads : RaceOnRetry(t, u)

ConcurrentSpec == InitConcurrent /\ [][NextConcurrent]_vars

----------------------------------------------------------------------------
(* The functions of the anonymous namespace on their own: each is called   *)
(* once on an argument drawn from a bounded set.                           *)

\* Longest string handed to Tail.
MaxLen == 4

\* The characters of those strings: the separator and two others.
TailAlphabet == {"/", "a", "-"}

\* std::string values of at most n characters.
Strings(n) == UNION {[1..k -> TailAlphabet] : k \in 0..n}

CallOf(f, value, json, keys) == [f |-> f, value |-> value, json |-> json, keys |-> keys]

NotReturned == [done |-> FALSE, value |-> <<>>]
ReturnOf(value) == [done |-> TRUE, value |-> value]

TailCalls == {CallOf("Tail", value, JNull, <<>>) : value \in Strings(MaxLen)}

\* Longest path handed to FindRecursive.
MaxDepth == 3

\* Keys of the paths: those the Parser asks for, down to the attributes of
\* the instance.
PathKeys == {"project", "projectId", "instance", "id", "machineType", "attributes",
            "cluster-name"}

\* std::deque<std::string> values of at most n keys.
Paths(n) == UNION {[1..k -> PathKeys] : k \in 0..n}

\* Numbers of a document: the instance id of the tests
\* (1020304050607080900), small integers, both ends of std::int64_t, the
\* integers from 2^63 to 2^64 - 1 that only std::uint64_t holds, and 7.5.
Numbers ==
    {JInteger(0), JInteger(1020), JInteger(-5),
     JNumber("number_unsigned", Integer64(FALSE, <<3624, 55584, 54099, 50628>>)),
     JNumber("number_unsigned", Integer64(FALSE, <<32767, 65535, 65535, 65535>>)),
     JNumber("number_unsigned", Integer64(FALSE, <<32768, 0, 0, 0>>)),
     JNumber("number_unsigned", Integer64(FALSE, <<43860, 43404, 60191, 2770>>)),
     JNumber("number_unsigned", Integer64(FALSE, <<65535, 65535, 65535, 65535>>)),
     JNumber("number_integer", Integer64(TRUE, <<32768, 0, 0, 0>>)),
     JNumber("number_float", [neg |-> FALSE, mag |-> Limbs(7), frac |-> TRUE])}

\* Documents: those given to the Parser, roots that are no object,
\* documents whose instance is a string or a number, and documents with each
\* of Numbers as the instance id.
LookupDocs ==
    ParserDocs
    \cup (InvalidBodies \ {JDiscarded})
    \cup {JNull, JInteger(5), Obj1("instance", JString(<<"t","p">>)),
          Obj1("instance", JInteger(7)), Obj1("instance", Obj1("id", JArray)),
          Obj1("instance", Obj1("id", JNull))}
    \cup {Obj1("instance", Obj1("id", number)) : number \in Numbers}

FindRecursiveCalls ==
    {CallOf("FindRecursive", <<>>, json, keys) : json \in LookupDocs, keys \in Paths(MaxDepth)}

InitFunctions ==
    /\ InitDetector(LimitedErrorCountRetry(0), <<"http://metadata.google.internal">>)
    /\ env = EnvOf({})
    /\ threads = {}
    /\ input \in TailCalls \cup FindRecursiveCalls
    /\ output = NotReturned

\* Tail(value)
CallTail ==
    /\ input.f = "Tail" /\ ~output.done
    /\ output' = ReturnOf(TailId(input.value))
    /\ UNCHANGED <<writes, overlapped, input, options, detectorVars, env, threads, pc, result, ret, response,
                   attempts, asked, granted, logged, calls, failures, successes,
                   requests, sent, slept, firstSuccess, requestsAtFirstSuccess>>

\* FindRecursive(json, keys)
CallFindRecursive ==
    /\ input.f = "FindRecursive" /\ ~output.done
    /\ output' = ReturnOf(FindRecursive(input.json, input.keys))
    /\ UNCHANGED <<writes, overlapped, input, options, detectorVars, env, threads, pc, result, ret, response,
                   attempts, asked, granted, logged, calls, failures, successes,
                   requests, sent, slept, firstSuccess, requestsAtFirstSuccess>>

NextFunctions ==
    \/ CallTail
    \/ CallFindRecursive

FunctionSpec == InitFunctions /\ [][NextFunctions]_vars

----------------------------------------------------------------------------
(* The legacy form of the fetcher (the detector before its endpoint became *)
(* an option): QmsOnce is called once on an answer of the client.  Its     *)
(* ToLower, ValidateHeaders and ValidateJson are those above.              *)

\* struct QmsResult of the legacy form, default constructed.
LegacyQmsResult == [error |-> <<"Unknown error.">>, retry |-> FALSE, json |-> JNull]

\* QmsMapStatus of the legacy form: the error set for a status outside of
\* 200..299 is cleared again before the return.
LegacyQmsMapStatus(c) ==
    LET r == IF c < 200 \/ c >= 300
             THEN [LegacyQmsResult EXCEPT !.error = <<"HTTP code=">> \o to_string(c)]
             ELSE LegacyQmsResult
    IN  [r EXCEPT !.error = <<>>]

\* QmsOnce of the legacy form, given the answer res of client->GetNoSsl.  The
\* integer of the session state is written as its enumerator: the numbering
\* of the enumerators is declared outside of these sources.
LegacyQmsOnce(res) ==
    IF ~ResultOk(res)
    THEN [LegacyQmsResult EXCEPT !.error = <<"SessionState as int: ", res.state>>,
                                 !.retry = FALSE]
    ELSE LET status == LegacyQmsMapStatus(res.status)
         IN  IF status.error # <<>> THEN status
             ELSE IF ~ValidateHeaders(res.headers)
             THEN [LegacyQmsResult EXCEPT
                      !.error = <<"response headers do not match expectations">>,
                      !.retry = TRUE]
             ELSE IF ~ValidateJson(res.body)
             THEN [LegacyQmsResult EXCEPT
                      !.error = <<"returned payload does not match expectation.">>,
                      !.retry = TRUE]
             ELSE [LegacyQmsResult EXCEPT !.json = res.body, !.error = <<>>]

\* What client->GetNoSsl may return: the answers given to the detector, and
\* every status code with and without the expected headers and document.
LegacyResponses ==
    Responses
    \cup {Answer("Response", c, h, b) :
             c \in StatusCodes, h \in {HeadersGood, <<>>}, b \in {DocGce, JDiscarded}}

InitLegacy ==
    /\ InitDetector(LimitedErrorCountRetry(0), <<"http://metadata.google.internal">>)
    /\ env = EnvOf({})
    /\ threads = {}
    /\ input \in {[f |-> "QmsOnce", res |-> res] : res \in LegacyResponses}
    /\ output = [done |-> FALSE, result |-> LegacyQmsResult]

\* QmsOnce(client) of the legacy form
CallLegacyQmsOnce ==
    /\ ~output.done
    /\ output' = [done |-> TRUE, result |-> LegacyQmsOnce(input.res)]
    /\ UNCHANGED <<writes, overlapped, input, options, detectorVars, env, threads, pc, result, ret, response,
                   attempts, asked, granted, logged, calls, failures, successes,
                   requests, sent, slept, firstSuccess, requestsAtFirstSuccess>>

NextLegacy ==
    \/ CallLegacyQmsOnce

LegacySpec == InitLegacy /\ [][NextLegacy]_vars

----------------------------------------------------------------------------
(* Properties. *)

\* The Detect() call of thread t has returned.
Returned(t) == pc[t] = "done"
\* ... in failure: RetryLoop handed back an error.
Failed(t) == Returned(t) /\ result[t].error # <<>>

\* C1, first part: after a Detect() call has succeeded, every later Detect()
\* call issues no HTTP request, does not consult the retry policy and returns
\* the attribute set of the first successful call.
C1_LaterCallsUseCache ==
    firstSuccess[1] =>
        /\ requests = requestsAtFirstSuccess
        /\ \A t \in threads :
              /\ Returned(t)
              /\ ret[t] = firstSuccess[2]
              /\ successes >= 2 => attempts[t] = 0 /\ asked[t] = 0

\* C1 as stated: the above, and over two sequential successful Detect() calls
\* exactly one network request is made.
C1_TwoSuccessfulCallsOneRequest ==
    /\ C1_LaterCallsUseCache
    /\ (calls = 2 /\ successes = 2) => requests = 1

\* C1 as amended: after a Detect() call has succeeded, every later call issues
\* no HTTP request, does not consult the retry policy and returns the same set;
\* over two sequential successful Detect() calls the second makes no request,
\* and the first makes one request per fetch attempt: exactly one when its
\* first attempt succeeds, one more for every retry the policy granted it.
C1_SecondCallMakesNoRequest ==
    /\ C1_LaterCallsUseCache
    /\ (calls = 1 /\ successes = 1) =>
           \A t \in threads : requests = attempts[t] /\ attempts[t] = granted[t] + 1
    /\ (calls = 2 /\ successes = 2) =>
           /\ requests = requestsAtFirstSuccess
           /\ requests >= 1

\* Two successful calls, the first of which needed one retry: two requests.
C1_Witness ==
    /\ calls = 2 /\ successes = 2 /\ requests = 2
    /\ Returned(1) /\ attempts[1] = 0 /\ ret[1] = firstSuccess[2]
    /\ ~Uncomputed(ret[1])

\* C2: the detector state moves from Uncomputed to Cached at most once: once a
\* set is cached, no Detect() call, change of the environment or answer of the
\* metadata server changes it.
C2_CachedNeverChanges ==
    [][attributes_ # EmptyAttributes => attributes_' = attributes_]_vars

\* A second call has returned the set cached for Kubernetes Engine although
\* the environment no longer has KUBERNETES_SERVICE_HOST.
C2_Witness ==
    /\ successes >= 2
    /\ "cloud.platform" \in DOMAIN attributes_
    /\ attributes_["cloud.platform"] = <<"gcp_kubernetes_engine">>
    /\ ~env["KUBERNETES_SERVICE_HOST"].set

\* C3: a Detect() call that ends in failure (a fatal failure, or a retryable
\* failure with the retry budget exhausted) returns an empty attribute set and
\* leaves the cache as it was before the call: empty.
C3_FailureLeavesUncomputed ==
    \A t \in threads :
        Failed(t) => /\ ret[t] = EmptyAttributes
                     /\ attributes_ = EmptyAttributes
                     /\ ~firstSuccess[1]

\* A call has failed after four attempts, the last refusal coming from the policy.
C3_Witness ==
    /\ Failed(1) /\ result[1].retry /\ attempts[1] = 4
    /\ ret[1] = EmptyAttributes /\ attributes_ = EmptyAttributes

\* The retries a fresh instance of the policy grants before it refuses.
FullBudget(r) == IF r.kind = "DefaultRetry" THEN Len(backoffs_) ELSE r.retries_

\* C4: after a Detect() call that failed, the next Detect() call starts from
\* scratch with the full retry budget again: whenever a call gives up on a
\* retryable failure, it has made a first attempt and every retry of the
\* policy (four attempts with the default policy), as the first call did.
C4_NextCallHasFullBudget ==
    \A t \in threads :
        (retry_.kind = "DefaultRetry" /\ Failed(t) /\ result[t].retry) =>
            attempts[t] = FullBudget(retry_) + 1

\* C5: when every fetch attempt of one Detect() call yields a retryable
\* failure and the policy grants N retries before refusing, the loop makes
\* exactly N+1 attempts, then Detect() returns an empty set; the first call
\* on a detector gets every retry of its policy (4 attempts for a 3-retry
\* policy).
C5_ExhaustedLoopAttempts ==
    \A t \in threads :
        (Returned(t) /\ result[t].retry) =>
            /\ attempts[t] = granted[t] + 1
            /\ asked[t] = granted[t] + 1
            /\ ret[t] = EmptyAttributes
            /\ calls = 1 => attempts[t] = FullBudget(retry_) + 1

\* The test RetriesTransientHttpErrors: 503 until the 3-retry policy refuses.
C5_Witness ==
    /\ calls = 1 /\ Returned(1) /\ result[1].retry
    /\ retry_.kind = "LimitedErrorCountRetry" /\ retry_.retries_ = 3
    /\ response[1].status = 503 /\ attempts[1] = 4 /\ granted[1] = 3

\* The client obtained no response for the last request of thread t.
TransportFailure(t) == attempts[t] >= 1 /\ response[t].state # "Response"

\* C6: a transport failure is fatal: the attempt that met it is the last of
\* its Detect() call, the policy is not asked for another attempt even when
\* it would grant one, and the call returns an empty set; met at the first
\* attempt, the call makes exactly one attempt.
C6_TransportFailureIsFatal ==
    \A t \in threads :
        TransportFailure(t) =>
            /\ pc[t] \in {"finish", "done"}
            /\ ~result[t].retry /\ result[t].error # <<>>
            /\ asked[t] = granted[t]
            /\ attempts[t] = granted[t] + 1
            /\ Returned(t) => ret[t] = EmptyAttributes

\* The test ConnectionErrors: one attempt, with three retries left unused.
C6_Witness ==
    /\ Returned(1) /\ response[1].state = "ConnectFailed"
    /\ attempts[1] = 1 /\ asked[1] = 0
    /\ retry_ = LimitedErrorCountRetry(3)
    /\ ret[1] = EmptyAttributes

\* A response with a status outside 200..299 answered the last request of t.
BadStatus(t) ==
    /\ attempts[t] >= 1 /\ response[t].state = "Response"
    /\ ~(response[t].status \in 200..299)

\* C7: for a response with HTTP status c outside 200..299 the outcome is a
\* retryable failure exactly when c < 200, c = 429 or c >= 500, and a
\* non-retryable failure for every other c; a non-retryable status ends the
\* Detect() call with that attempt (after exactly one attempt when it is the
\* first) even when the policy would allow retries.
C7_StatusClassification ==
    \A t \in threads :
        BadStatus(t) =>
            LET c == response[t].status
            IN  /\ result[t].error # <<>>
                /\ result[t].retry <=> (c < 200 \/ c = 429 \/ c >= 500)
                /\ ~result[t].retry =>
                      /\ pc[t] \in {"finish", "done"}
                      /\ asked[t] = granted[t]
                      /\ attempts[t] = granted[t] + 1
                      /\ Returned(t) => ret[t] = EmptyAttributes

\* The test DoesNotRetryPermanentHttpErrors: 404, one attempt, three retries unused.
C7_Witness ==
    /\ Returned(1) /\ response[1].status = 404 /\ response[1].state = "Response"
    /\ attempts[1] = 1 /\ asked[1] = 0
    /\ retry_ = LimitedErrorCountRetry(3)

\* A response with a status in 200..299 answered the last request of t.
GoodStatus(t) ==
    /\ attempts[t] >= 1 /\ response[t].state = "Response"
    /\ response[t].status \in 200..299

\* Two characters are the same letter, in either case, or the same character.
SameLetter(x, y) ==
    x = y \/ \E i \in 1..26 : {x, y} = {UpperCase[i], LowerCase[i]}

EqualsIgnoringCase(a, b) ==
    Len(a) = Len(b) /\ \A i \in 1..Len(a) : SameLetter(a[i], b[i])

BeginsIgnoringCase(a, prefix) ==
    /\ Len(a) >= Len(prefix)
    /\ EqualsIgnoringCase(SubSeq(a, 1, Len(prefix)), prefix)

WithoutCR(s) == SelectSeq(s, LAMBDA c : c # CR)

\* The headers hold a content-type beginning with application/json and a
\* metadata-flavor equal to google, names and values compared ignoring case.
HeadersAsStated(headers) ==
    /\ \E i \in 1..Len(headers) :
          /\ EqualsIgnoringCase(headers[i][1], s_content_type)
          /\ BeginsIgnoringCase(headers[i][2], s_application_json)
    /\ \E i \in 1..Len(headers) :
          /\ EqualsIgnoringCase(headers[i][1], s_metadata_flavor)
          /\ EqualsIgnoringCase(headers[i][2], s_google)

\* The same, with the carriage returns of names and values left out first.
HeadersAsStatedModuloCR(headers) ==
    HeadersAsStated([i \in 1..Len(headers) |->
        <<WithoutCR(headers[i][1]), WithoutCR(headers[i][2])>>])

HeaderFailure ==
    [QmsResult EXCEPT !.error = <<"response headers do not match expectations">>,
                      !.retry = TRUE]

\* C8 as stated: a 2xx response yields Success only if its headers contain a
\* content-type beginning with application/json and a metadata-flavor equal
\* to google, compared case-insensitively; otherwise the outcome is a
\* retryable failure "response headers do not match expectations" and no
\* attributes are produced.
C8_HeadersIgnoringCase ==
    \A t \in threads :
        GoodStatus(t) =>
            /\ result[t].error = <<>> => HeadersAsStated(response[t].headers)
            /\ ~HeadersAsStated(response[t].headers) =>
                  /\ result[t] = HeaderFailure
                  /\ Returned(t) => ret[t] = EmptyAttributes /\ attributes_ = EmptyAttributes

\* C8 as amended: the same, names and values compared case-insensitively
\* after their carriage-return characters are removed.
C8_HeadersIgnoringCaseAndCR ==
    \A t \in threads :
        GoodStatus(t) =>
            /\ result[t].error = <<>> => HeadersAsStatedModuloCR(response[t].headers)
            /\ ~HeadersAsStatedModuloCR(response[t].headers) =>
                  /\ result[t] = HeaderFailure
                  /\ Returned(t) => ret[t] = EmptyAttributes /\ attributes_ = EmptyAttributes

\* Header values that end in a carriage return were accepted and a detection
\* returned from them.
C8_Witness ==
    /\ Returned(1) /\ GoodStatus(1) /\ response[1].headers = HeadersCR
    /\ result[1].error = <<>>
    /\ "cloud.provider" \in DOMAIN ret[1]

\* The body is a JSON object with a project key.
BodyAsRequired(body) == body.t = "object" /\ "project" \in DOMAIN body.kids

\* C9: a 2xx response with valid headers whose body does not parse as JSON,
\* parses to a non-object, or is an object without a project key is a
\* retryable failure; a Detect() call that ends on it returns, and returns a
\* set without cloud.provider.
C9_BadBodyIsRetryable ==
    \A t \in threads :
        (/\ GoodStatus(t)
         /\ HeadersAsStatedModuloCR(response[t].headers)
         /\ ~BodyAsRequired(response[t].body)) =>
            /\ result[t].retry
            /\ result[t].error = <<"returned payload does not match expectation.">>
            /\ result[t].json = JNull
            /\ pc[t] \in {"onretry", "loop", "finish", "done"}
            /\ Returned(t) => /\ "cloud.provider" \notin DOMAIN ret[t]
                              /\ ret[t] = EmptyAttributes
                              /\ attributes_ = EmptyAttributes

\* The test HandlesBadJson: a malformed body, no retry, an empty set returned.
C9_Witness ==
    /\ Returned(1) /\ GoodStatus(1) /\ response[1].headers = HeadersGood
    /\ response[1].body = JDiscarded
    /\ retry_.kind = "LimitedErrorCountRetry" /\ retry_.retries_ = 0
    /\ ret[1] = EmptyAttributes

PlatformNames == << <<"gcp_kubernetes_engine">>, <<"gcp_cloud_functions">>,
                    <<"gcp_cloud_run">>, <<"gcp_app_engine">>,
                    <<"gcp_compute_engine">> >>

\* The five conditions of the classifier, in their order of precedence.
ConditionHolds(i, doc, e) ==
    CASE i = 1 -> e["KUBERNETES_SERVICE_HOST"].set
      [] i = 2 -> e["FUNCTION_TARGET"].set
      [] i = 3 -> e["K_CONFIGURATION"].set
      [] i = 4 -> e["GAE_SERVICE"].set
      [] i = 5 -> Metadata(doc, <<"instance", "machineType">>) # <<>>

\* The earliest condition that holds, 0 when none does.
EarliestCondition(doc, e) ==
    IF \E i \in 1..5 : ConditionHolds(i, doc, e)
    THEN CHOOSE i \in 1..5 :
             /\ ConditionHolds(i, doc, e)
             /\ \A j \in 1..(i-1) : ~ConditionHolds(j, doc, e)
    ELSE 0

CommonKeys == {"cloud.provider", "cloud.account.id", "cloud.platform"}

\* The keys a branch may set.
BranchKeys(i) ==
    CASE i = 0 -> {}
      [] i = 1 -> {"k8s.cluster.name", "host.id", "cloud.region", "cloud.availability_zone"}
      [] i \in {2, 3} -> {"faas.name", "faas.version", "faas.instance"}
      [] i = 4 -> {"faas.name", "faas.version", "faas.instance",
                   "cloud.availability_zone", "cloud.region"}
      [] i = 5 -> {"host.type", "host.id", "host.name",
                   "cloud.availability_zone", "cloud.region"}

\* Branch i alone, applied to the attributes common to all branches.
BranchAlone(i, doc, e) ==
    LET a == SetAttribute(SetAttribute(EmptyAttributes, "cloud.provider", <<"gcp">>),
                 "cloud.account.id", Metadata(doc, <<"project", "projectId">>))
    IN  CASE i = 0 -> a
          [] i = 1 -> Gke(a, doc, e)
          [] i = 2 -> CloudFunctions(a, doc, e)
          [] i = 3 -> CloudRun(a, doc, e)
          [] i = 4 -> Gae(a, doc, e)
          [] i = 5 -> Gce(a, doc, e)

\* C10: after a successful fetch the classifier selects exactly one branch by
\* first match in the order KUBERNETES_SERVICE_HOST, FUNCTION_TARGET,
\* K_CONFIGURATION, GAE_SERVICE, non-empty instance.machineType: for every
\* combination of the five conditions cloud.platform is the value of the
\* earliest one that holds, and the attributes of later branches are not
\* applied.
C10_FirstMatchingBranch ==
    \A t \in threads :
        (Returned(t) /\ ~Failed(t) /\ attempts[t] > 0) =>
            LET i == EarliestCondition(result[t].json, env)
            IN  /\ i = 0 => "cloud.platform" \notin DOMAIN ret[t]
                /\ i # 0 => /\ "cloud.platform" \in DOMAIN ret[t]
                            /\ ret[t]["cloud.platform"] = PlatformNames[i]
                /\ DOMAIN ret[t] \subseteq CommonKeys \cup BranchKeys(i)
                /\ ret[t] = BranchAlone(i, result[t].json, env)
                /\ attributes_ = ret[t]

\* FUNCTION_TARGET, K_CONFIGURATION and GAE_SERVICE are set and the document
\* has a machineType: Cloud Functions is selected, with its own faas.name.
C10_Witness ==
    /\ Returned(1) /\ calls = 1
    /\ ~env["KUBERNETES_SERVICE_HOST"].set /\ env["FUNCTION_TARGET"].set
    /\ env["K_CONFIGURATION"].set /\ env["GAE_SERVICE"].set /\ env["K_SERVICE"].set
    /\ result[1].json = DocGce
    /\ ret[1]["cloud.platform"] = <<"gcp_cloud_functions">>
    /\ ret[1]["faas.name"] = env["K_SERVICE"].value
    /\ "host.type" \notin DOMAIN ret[1]

\* The value of variable name in environment e, empty when it is not set.
EnvValueOf(e, name) == IF e[name].set THEN e[name].value ELSE <<>>

\* The keys branch i assigns from a single source, with cloud.account.id.
AssignedKeys(i) ==
    {"cloud.account.id"} \cup
    CASE i = 0 -> {}
      [] i = 1 -> {"k8s.cluster.name", "host.id"}
      [] i \in {2, 3, 4} -> {"faas.name", "faas.version", "faas.instance"}
      [] i = 5 -> {"host.id", "host.name"}

\* The value branch i looks up, or reads from the environment, for key k.
AssignedValue(i, k, doc, e) ==
    CASE k = "cloud.account.id" -> Metadata(doc, <<"project", "projectId">>)
      [] k = "k8s.cluster.name" -> Metadata(doc, <<"instance", "attributes", "cluster-name">>)
      [] k = "host.id" -> Metadata(doc, <<"instance", "id">>)
      [] k = "host.name" -> Metadata(doc, <<"instance", "name">>)
      [] k = "faas.name" -> EnvValueOf(e, IF i = 4 THEN "GAE_SERVICE" ELSE "K_SERVICE")
      [] k = "faas.version" -> EnvValueOf(e, IF i = 4 THEN "GAE_VERSION" ELSE "K_REVISION")
      [] k = "faas.instance" -> IF i = 4 THEN EnvValueOf(e, "GAE_INSTANCE")
                                ELSE Metadata(doc, <<"instance", "id">>)

\* C11: no attribute set built or returned by the detector holds an empty
\* value for any key; an assignment whose looked-up or environment value is
\* empty leaves the key out.
C11_NoEmptyValues ==
    /\ \A k \in DOMAIN attributes_ : attributes_[k] # <<>>
    /\ \A t \in threads :
          /\ \A k \in DOMAIN ret[t] : ret[t][k] # <<>>
          /\ (Returned(t) /\ ~Failed(t) /\ attempts[t] > 0) =>
                LET i == EarliestCondition(result[t].json, env)
                IN  \A k \in AssignedKeys(i) :
                        IF AssignedValue(i, k, result[t].json, env) = <<>>
                        THEN k \notin DOMAIN ret[t]
                        ELSE k \in DOMAIN ret[t]
                             /\ ret[t][k] = AssignedValue(i, k, result[t].json, env)

\* Cloud Functions with K_SERVICE set to the empty string, on a document
\* without projectId: neither faas.name nor cloud.account.id is in the set.
C11_Witness ==
    /\ Returned(1) /\ ~Failed(1) /\ attempts[1] > 0
    /\ result[1].json = DocBare
    /\ ~env["KUBERNETES_SERVICE_HOST"].set
    /\ env["FUNCTION_TARGET"].set
    /\ env["K_SERVICE"].set /\ env["K_SERVICE"].value = <<>>
    /\ "faas.name" \notin DOMAIN ret[1]
    /\ "cloud.account.id" \notin DOMAIN ret[1]
    /\ "cloud.platform" \in DOMAIN ret[1]

\* The part of s after its last slash, all of s when it has none.
AfterLastSlash(s) ==
    LET slashes == {i \in 1..Len(s) : s[i] = "/"}
    IN  IF slashes = {} THEN s
        ELSE SubSeq(s, (CHOOSE i \in slashes : \A j \in slashes : j <= i) + 1, Len(s))

\* The number of hyphens of s.
Hyphens(s) == Len(SelectSeq(s, LAMBDA c : c = "-"))

\* A Detect() call of thread t has parsed a document and returned.
Parsed(t) == Returned(t) /\ ~Failed(t) /\ attempts[t] > 0

\* C12: in the GKE branch, with loc the tail of
\* instance.attributes.cluster-location: one hyphen gives cloud.region = loc
\* and no cloud.availability_zone, two hyphens give
\* cloud.availability_zone = loc and no cloud.region, any other count gives
\* neither key; both keys are never set together.
C12_GkeRegionOrZone ==
    \A t \in threads :
        (Parsed(t) /\ EarliestCondition(result[t].json, env) = 1) =>
            LET loc == AfterLastSlash(Metadata(result[t].json,
                           <<"instance", "attributes", "cluster-location">>))
                hasRegion == "cloud.region" \in DOMAIN ret[t]
                hasZone == "cloud.availability_zone" \in DOMAIN ret[t]
            IN  /\ Hyphens(loc) = 1 =>
                      hasRegion /\ ret[t]["cloud.region"] = loc /\ ~hasZone
                /\ Hyphens(loc) = 2 =>
                      hasZone /\ ret[t]["cloud.availability_zone"] = loc /\ ~hasRegion
                /\ Hyphens(loc) \notin {1, 2} => ~hasRegion /\ ~hasZone
                /\ ~(hasRegion /\ hasZone)

\* The test GkeZone: a cluster location with two hyphens after its last slash.
C12_Witness ==
    /\ Parsed(1)
    /\ env["KUBERNETES_SERVICE_HOST"].set
    /\ Metadata(result[1].json, <<"instance", "attributes", "cluster-location">>)
           = <<"p","/","z","/","u","s","-","c","1","-","a">>
    /\ ret[1]["cloud.availability_zone"] = <<"u","s","-","c","1","-","a">>
    /\ "cloud.region" \notin DOMAIN ret[1]

\* No platform variable is set in environment e.
NoPlatformVariable(e) == \A v \in PlatformVars : ~e[v].set

\* The document has a member machineType in its member instance.
MachineTypePresent(doc) ==
    /\ doc.t = "object" /\ "instance" \in DOMAIN doc.kids
    /\ doc.kids["instance"].t = "object"
    /\ "machineType" \in DOMAIN doc.kids["instance"].kids

\* The member machineType of the document is a non-empty string or a number.
MachineTypeHasValue(doc) ==
    /\ MachineTypePresent(doc)
    /\ LET m == doc.kids["instance"].kids["machineType"]
       IN  \/ m.t = "string" /\ m.s # <<>>
           \/ m.t \in {"number_integer", "number_unsigned", "number_float"}

\* C13 as stated: for any document in which instance.machineType is present,
\* with none of the four platform variables set, a successful Detect() yields
\* cloud.platform = "gcp_compute_engine".
C13_MachineTypePresentIsGce ==
    \A t \in threads :
        (Parsed(t) /\ NoPlatformVariable(env) /\ MachineTypePresent(result[t].json)) =>
            /\ "cloud.platform" \in DOMAIN ret[t]
            /\ ret[t]["cloud.platform"] = <<"gcp_compute_engine">>

\* C13, amended: for any document whose instance.machineType is a non-empty
\* string or a number, with none of the four platform variables set, a
\* successful Detect() yields cloud.platform = "gcp_compute_engine"; when
\* machineType is present with any other value (an empty string, an object)
\* the set has no cloud.platform.
C13_MachineTypeValueIsGce ==
    \A t \in threads :
        (Parsed(t) /\ NoPlatformVariable(env)) =>
            /\ MachineTypeHasValue(result[t].json) =>
                  /\ "cloud.platform" \in DOMAIN ret[t]
                  /\ ret[t]["cloud.platform"] = <<"gcp_compute_engine">>
            /\ (MachineTypePresent(result[t].json)
                   /\ ~MachineTypeHasValue(result[t].json)) =>
                  "cloud.platform" \notin DOMAIN ret[t]

\* The test Gce: its payload with no platform variable set.
C13_Witness ==
    /\ Parsed(1) /\ NoPlatformVariable(env)
    /\ result[1].json = DocGce
    /\ ret[1]["cloud.platform"] = <<"gcp_compute_engine">>
    /\ ret[1]["host.type"] = <<"c","2","d">>

\* The App Engine or the Compute Engine branch was selected.
ZoneBranch(doc, e) == EarliestCondition(doc, e) \in {4, 5}

\* region is the part of zone before its last hyphen.
BeforeLastHyphen(region, zone) ==
    /\ Len(region) < Len(zone)
    /\ \E suffix \in {SubSeq(zone, i, Len(zone)) : i \in 1..(Len(zone) + 1)} :
          /\ zone = region \o <<"-">> \o suffix
          /\ Hyphens(suffix) = 0

\* C14: in the App Engine and Compute Engine branches, with zone the tail of
\* instance.zone, cloud.availability_zone equals zone and cloud.region,
\* whenever it is set, is the part of zone before its last hyphen (strictly
\* shorter than zone, zone = region + "-" + suffix), for every zone string.
C14_RegionBeforeLastHyphen ==
    \A t \in threads :
        (Parsed(t) /\ ZoneBranch(result[t].json, env)) =>
            LET zone == AfterLastSlash(Metadata(result[t].json, <<"instance", "zone">>))
            IN  /\ zone # <<>> =>
                      /\ "cloud.availability_zone" \in DOMAIN ret[t]
                      /\ ret[t]["cloud.availability_zone"] = zone
                /\ "cloud.region" \in DOMAIN ret[t] =>
                      BeforeLastHyphen(ret[t]["cloud.region"], zone)

\* The reason a failed attempt with answer res is reported with.
ReasonOfAttempt(res) ==
    IF res.state # "Response" THEN <<"SessionState: ", res.state>>
    ELSE IF res.status < 200 \/ res.status > 299
    THEN <<"HTTP code=">> \o to_string(res.status)
    ELSE IF ~HeadersAsStatedModuloCR(res.headers)
    THEN <<"response headers do not match expectations">>
    ELSE <<"returned payload does not match expectation.">>

\* C15: a Detect() call that ends in failure emits exactly one Info log entry,
\* "Could not query the metadata server" followed by the reason of the last
\* attempt, however many attempts were made; a Detect() call that succeeds or
\* is served from the cache emits none.
C15_OneLogEntryPerFailure ==
    \A t \in threads :
        /\ Failed(t) =>
              /\ Len(logged[t]) = 1
              /\ logged[t][1].level = "Info"
              /\ logged[t][1].msg =
                     <<"Could not query the metadata server. status=">>
                     \o ReasonOfAttempt(response[t]) \o <<"\n">>
        /\ (Returned(t) /\ ~Failed(t)) => logged[t] = <<>>
        /\ ~Returned(t) => logged[t] = <<>>

\* The test RetriesTransientHttpErrors: four attempts, the last answered 503,
\* one entry.
C15_Witness ==
    /\ Failed(1) /\ attempts[1] = 4
    /\ response[1].state = "Response" /\ response[1].status = 503
    /\ Len(logged[1]) = 1
    /\ logged[1][1].msg = <<"Could not query the metadata server. status=",
                            "HTTP code=", "5", "0", "3", "\n">>

\* The delays of the default policy, in seconds.
DefaultDelays == <<1, 2, 4>>

\* Thread t calls OnRetry in this step.
CallsOnRetry(t) == asked'[t] = asked[t] + 1

\* C16: the default retry policy consumes the delays 1, 2, 4 in that order:
\* its first three calls sleep 1 s, 2 s and 4 s and return true, every later
\* call returns false without sleeping.  slept holds the delays of the calls
\* made so far, so the call made with Len(slept) < 3 is call Len(slept) + 1.
C16_DefaultDelaysInOrder ==
    /\ [](retry_.kind = "DefaultRetry" =>
            slept = SubSeq(DefaultDelays, 1, Len(slept)))
    /\ [][\A t \in threads :
            (retry_.kind = "DefaultRetry" /\ CallsOnRetry(t)) =>
                IF Len(slept) < 3
                THEN /\ slept' = Append(slept, DefaultDelays[Len(slept) + 1])
                     /\ granted'[t] = granted[t] + 1
                     /\ pc'[t] = "loop"
                ELSE /\ slept' = slept
                     /\ granted'[t] = granted[t]
                     /\ pc'[t] = "finish"]_vars

\* The fourth call of the policy has returned false: three delays slept.
C16_Witness ==
    /\ retry_.kind = "DefaultRetry"
    /\ asked[1] = 4 /\ granted[1] = 3 /\ pc[1] = "finish"
    /\ slept = <<1, 2, 4>>

\* The request the detector is to make when configured with endpoint.
ExpectedRequest(endpoint) ==
    [method |-> "GET",
     url |-> endpoint \o <<"/computeMetadata/v1/?recursive=true">>,
     headers |-> << <<"Metadata-Flavor", "Google">> >>]

\* C17: every fetch attempt of every Detect() call, first attempt and retries
\* alike, is a GET to the configured endpoint followed by
\* "/computeMetadata/v1/?recursive=true", with the header
\* Metadata-Flavor: Google; the URL never changes between attempts.
C17_EveryRequestTheSame ==
    /\ sent \subseteq {ExpectedRequest(options.endpoint)}
    /\ requests > 0 => sent = {ExpectedRequest(options.endpoint)}
    /\ \A t \in threads : attempts[t] <= requests

\* The test RespectsEndpoint, with a retry: two attempts to the custom endpoint.
C17_Witness ==
    /\ options.endpoint = <<"http://custom.endpoint">>
    /\ attempts[1] = 2 /\ calls = 2 /\ requests >= 3
    /\ sent = {[method |-> "GET",
                url |-> <<"http://custom.endpoint", "/computeMetadata/v1/?recursive=true">>,
                headers |-> << <<"Metadata-Flavor", "Google">> >>]}

\* C18: every attribute set produced by a successful detection contains
\* cloud.provider = "gcp", whatever branch is taken (none included), and
\* cloud.account.id equal to project.projectId whenever that lookup is not
\* empty.
C18_ProviderAndAccount ==
    \A t \in threads :
        Parsed(t) =>
            LET projectId == Metadata(result[t].json, <<"project", "projectId">>)
            IN  /\ "cloud.provider" \in DOMAIN ret[t]
                /\ ret[t]["cloud.provider"] = <<"gcp">>
                /\ projectId # <<>> =>
                      /\ "cloud.account.id" \in DOMAIN ret[t]
                      /\ ret[t]["cloud.account.id"] = projectId

\* No branch is taken: the set is cloud.provider and cloud.account.id alone.
C18_Witness ==
    /\ Parsed(1)
    /\ EarliestCondition(result[1].json, env) = 0
    /\ DOMAIN ret[1] = {"cloud.provider", "cloud.account.id"}
    /\ ret[1]["cloud.provider"] = <<"gcp">>
    /\ ret[1]["cloud.account.id"] = <<"t", "p">>

\* Thread t is inside Detect().
Inside(t) == pc[t] \in {"loop", "onretry", "finish"}

\* C19: with the default retry policy every Detect() call eventually returns,
\* after at most 4 fetch attempts, for every sequence of metadata-server
\* responses.
C19_DetectReturns ==
    /\ [](\A t \in threads :
            retry_.kind = "DefaultRetry" => attempts[t] <= Len(DefaultDelays) + 1)
    /\ \A t \in Threads : (t \in threads /\ Inside(t)) ~> Returned(t)

\* Three retryable failures, then an answer that is accepted: the call
\* returns after its fourth attempt.
C19_Witness ==
    /\ retry_.kind = "DefaultRetry"
    /\ Returned(1) /\ ~Failed(1)
    /\ attempts[1] = 4 /\ granted[1] = 3

\* The attributes of a function-as-a-service platform: the keys whose value
\* is not empty.
FaasAttributes(doc, e, platform) ==
    LET all == [k \in {"cloud.provider", "cloud.account.id", "cloud.platform",
                       "faas.name", "faas.version", "faas.instance"} |->
                   CASE k = "cloud.provider" -> <<"gcp">>
                     [] k = "cloud.account.id" -> Metadata(doc, <<"project", "projectId">>)
                     [] k = "cloud.platform" -> <<platform>>
                     [] k = "faas.name" -> EnvValueOf(e, "K_SERVICE")
                     [] k = "faas.version" -> EnvValueOf(e, "K_REVISION")
                     [] k = "faas.instance" -> Metadata(doc, <<"instance", "id">>)]
    IN  [k \in {x \in DOMAIN all : all[x] # <<>>} |-> all[k]]

\* C20: the Cloud Functions and Cloud Run branches produce the same
\* attributes except for cloud.platform: faas.name from K_SERVICE,
\* faas.version from K_REVISION, faas.instance from instance.id, for every
\* document and environment.
C20_CloudRunAsCloudFunctions ==
    \A t \in threads :
        Parsed(t) =>
            LET i == EarliestCondition(result[t].json, env)
            IN  /\ i = 2 => ret[t] = FaasAttributes(result[t].json, env,
                                                    "gcp_cloud_functions")
                /\ i = 3 => ret[t] = FaasAttributes(result[t].json, env,
                                                    "gcp_cloud_run")

\* The test CloudRun: K_CONFIGURATION, K_SERVICE and K_REVISION set.
C20_Witness ==
    /\ Parsed(1)
    /\ EarliestCondition(result[1].json, env) = 3
    /\ result[1].json = DocFaas
    /\ env["K_SERVICE"].set /\ env["K_SERVICE"].value # <<>>
    /\ env["GAE_SERVICE"].set /\ env["GAE_SERVICE"].value # <<>>
    /\ ret[1]["cloud.platform"] = <<"gcp_cloud_run">>
    /\ ret[1]["faas.name"] = env["K_SERVICE"].value
    /\ ret[1]["faas.version"] = env["K_REVISION"].value
    /\ ret[1]["faas.instance"] = <<"1", "0", "2", "0">>

\* The response res passed the status, header and body checks.
Validated(res) ==
    /\ res.state = "Response" /\ res.status \in 200..299
    /\ HeadersAsStatedModuloCR(res.headers)
    /\ BodyAsRequired(res.body)

\* Every attribute the classifier derives from the document doc in the
\* environment e.
CompleteSet(doc, e) == BranchAlone(EarliestCondition(doc, e), doc, e)

C21_Returned ==
    \A t \in threads :
        Returned(t) => ret[t] = EmptyAttributes \/ ret[t] = attributes_

C21_Step ==
    /\ attributes_' # attributes_ =>
          /\ attributes_ = EmptyAttributes
          /\ \E t \in threads :
                /\ pc[t] = "finish"
                /\ Validated(response[t])
                /\ attributes_' = CompleteSet(response[t].body, env)
                /\ ret'[t] = attributes_'
    /\ \A t \in threads :
          ret'[t] # ret[t] => ret'[t] = EmptyAttributes \/ ret'[t] = attributes_'

\* C21: no attribute set is ever partially published: every value returned by
\* Detect() and every value held in the cache is either empty or the complete
\* attribute set the classifier built from one successfully validated
\* document; the cache goes from empty to that complete set in one step.
C21_NeverPartiallyPublished == []C21_Returned /\ [][C21_Step]_vars

\* A detection on Compute Engine is cached and returned with all seven
\* attributes.
C21_Witness ==
    /\ Parsed(1) /\ result[1].json = DocGce /\ NoPlatformVariable(env)
    /\ attributes_ = ret[1]
    /\ DOMAIN attributes_ = {"cloud.provider", "cloud.account.id", "cloud.platform",
                             "host.type", "host.id", "host.name",
                             "cloud.availability_zone", "cloud.region"}

\* The retry rule of the status codes.
RetryableStatus(c) == c < 200 \/ c = 429 \/ c >= 500

\* The outcome of the attempt that was answered with res.
OutcomeOf(res) ==
    IF res.state # "Response" THEN "FatalFailure"
    ELSE IF ~(res.status \in 200..299)
    THEN IF RetryableStatus(res.status) THEN "RetryableFailure" ELSE "FatalFailure"
    ELSE IF ~HeadersAsStatedModuloCR(res.headers) \/ ~BodyAsRequired(res.body)
    THEN "RetryableFailure"
    ELSE "Success"

\* The kind of the outcome r the loop holds.
KindOf(r) ==
    IF r.error = <<>> THEN "Success"
    ELSE IF r.retry THEN "RetryableFailure" ELSE "FatalFailure"

C22_Loop ==
    \A t \in threads :
        attempts[t] > 0 =>
            /\ pc[t] \in {"loop", "onretry"} =>
                  OutcomeOf(response[t]) = "RetryableFailure"
            /\ pc[t] \in {"finish", "done"} =>
                  /\ KindOf(result[t]) = OutcomeOf(response[t])
                  /\ attempts[t] = granted[t] + 1
                  /\ \/ /\ OutcomeOf(response[t]) \in {"Success", "FatalFailure"}
                        /\ asked[t] = granted[t]
                     \/ /\ OutcomeOf(response[t]) = "RetryableFailure"
                        /\ asked[t] = granted[t] + 1
            /\ Returned(t) =>
                  IF OutcomeOf(response[t]) = "Success"
                  THEN /\ ~Failed(t)
                       /\ ~Uncomputed(attributes_)
                       /\ ret[t] = attributes_
                  ELSE Failed(t) /\ ret[t] = EmptyAttributes

C22_Step ==
    \A t \in threads :
        (attempts[t] > 0 /\ attempts'[t] = attempts[t] + 1) =>
            /\ OutcomeOf(response[t]) = "RetryableFailure"
            /\ granted[t] = attempts[t]

\* C22: the detection loop stops at the first attempt whose outcome is Success
\* or a non-retryable failure, and otherwise stops when the policy refuses a
\* retry; a further attempt is made only after a retryable failure and a
\* granted retry, and the result surfaced is the outcome of the last attempt
\* made: a success after retryable failures populates the cache.
C22_StopsAtFirstFinalOutcome == []C22_Loop /\ [][C22_Step]_vars

\* Two retryable failures, then a success that is cached and returned.
C22_Witness ==
    /\ Returned(1) /\ attempts[1] = 3 /\ granted[1] = 2 /\ asked[1] = 2
    /\ OutcomeOf(response[1]) = "Success" /\ ~Failed(1)
    /\ ~Uncomputed(attributes_) /\ ret[1] = attributes_

\* The checks of one fetch attempt that the response res fails.
FailedChecks(res) ==
    {c \in {"transport", "status", "headers", "body"} :
        CASE c = "transport" -> res.state # "Response"
          [] c = "status" -> ~(res.status \in 200..299)
          [] c = "headers" -> ~HeadersAsStatedModuloCR(res.headers)
          [] c = "body" -> ~BodyAsRequired(res.body)}

\* The first of the checks, in the order transport, status, headers, body,
\* that res fails; "none" when it passes all four.
FirstFailingCheck(res) ==
    LET order == <<"transport", "status", "headers", "body">>
        failing == {i \in 1..4 : order[i] \in FailedChecks(res)}
    IN  IF failing = {} THEN "none"
        ELSE order[CHOOSE i \in failing : \A j \in failing : i <= j]

\* C23: within one fetch attempt the checks are applied in the order
\* transport, HTTP status, headers, body, and the first failing check
\* determines the outcome: a non-2xx response is reported by its status code
\* and classified by the status rule even when its headers or body are also
\* invalid, and a response with invalid headers is reported as a header
\* failure whatever its body.
C23_FirstFailingCheckDecides ==
    \A t \in threads :
        (attempts[t] > 0 /\ pc[t] # "loop") =>
            LET res == response[t]
                check == FirstFailingCheck(res)
            IN  /\ check = "transport" =>
                      /\ result[t].error = <<"SessionState: ", res.state>>
                      /\ ~result[t].retry
                /\ check = "status" =>
                      /\ result[t].error = <<"HTTP code=">> \o NatDigits(res.status)
                      /\ result[t].retry = RetryableStatus(res.status)
                /\ check = "headers" =>
                      /\ result[t].error =
                             <<"response headers do not match expectations">>
                      /\ result[t].retry
                /\ check = "body" =>
                      /\ result[t].error =
                             <<"returned payload does not match expectation.">>
                      /\ result[t].retry
                /\ check = "none" => result[t].error = <<>>
                /\ check # "none" => result[t].json = JNull

\* A 404 answer without headers and with an unparsable body is a fatal
\* failure reported by its status code.
C23_Witness ==
    /\ Failed(1) /\ response[1].status = 404
    /\ FailedChecks(response[1]) = {"status", "headers", "body"}
    /\ result[1].error = <<"HTTP code=", "4", "0", "4">> /\ ~result[1].retry
    /\ attempts[1] = 1

\* The outcome r carries a document.
HasDocument(r) == r.json # JNull

\* C24: every fetch outcome is exactly one of Success (a document, no error,
\* no retry flag), RetryableFailure (an error, the retry flag, no document)
\* and FatalFailure (an error, no retry flag, no document): it never carries
\* both a document and an error, its retry flag is set only when its error is
\* non-empty, and a document is present only when the transport, status,
\* header and body checks all passed.
C24_OutcomeIsOneOfThree ==
    \A t \in threads :
        attempts[t] > 0 =>
            LET r == result[t]
            IN  /\ ~(HasDocument(r) /\ r.error # <<>>)
                /\ r.retry => r.error # <<>>
                /\ HasDocument(r) =>
                      /\ FailedChecks(response[t]) = {}
                      /\ r.json = response[t].body
                /\ \/ HasDocument(r) /\ r.error = <<>> /\ ~r.retry
                   \/ ~HasDocument(r) /\ r.error # <<>> /\ r.retry
                   \/ ~HasDocument(r) /\ r.error # <<>> /\ ~r.retry

\* The three outcomes in one call: a retryable failure was retried, and the
\* next attempt was answered with a valid document.
C24_Witness ==
    /\ pc[1] = "finish" /\ attempts[1] = 2
    /\ HasDocument(result[1]) /\ result[1].error = <<>> /\ ~result[1].retry
    /\ result[1].json = DocGke

\* C25: Tail(value) returns the substring after the last '/' of value, or the
\* whole of value when it contains no '/', for every string including the
\* empty string and strings ending in '/'; Tail is idempotent.
C25_TailAfterLastSlash ==
    (input.f = "Tail" /\ output.done) =>
        /\ output.value = AfterLastSlash(input.value)
        /\ \A i \in 1..Len(output.value) : output.value[i] # "/"
        /\ (\A i \in 1..Len(input.value) : input.value[i] # "/") =>
               output.value = input.value
        /\ TailId(output.value) = output.value

\* Tail of a string that ends in '/' is the empty string.
C25_Witness ==
    /\ input.f = "Tail" /\ output.done
    /\ input.value = <<"a", "/", "-", "/">>
    /\ output.value = <<>>

\* No node: a key of the path is absent, or the node before it is no mapping.
Absent == [t |-> "absent", s |-> <<>>, n |-> NoNumber, kids |-> NoKids]

\* The node of doc at the end of path.
RECURSIVE NodeAt(_, _)
NodeAt(doc, path) ==
    IF path = <<>> THEN doc
    ELSE IF doc.t = "object" /\ Head(path) \in DOMAIN doc.kids
    THEN NodeAt(doc.kids[Head(path)], Tail(path))
    ELSE Absent

\* C26: Lookup(document, path) returns the empty string whenever some key of
\* the path is absent or the node reached before the end of the path is not a
\* mapping, and whenever the node at the end of the path is an object, a list
\* or absent; it returns a string leaf verbatim.  It never fails: every call
\* returns, for every document and path.
C26_LookupNeverFails ==
    input.f = "FindRecursive" =>
        /\ ~output.done => ENABLED CallFindRecursive
        /\ output.done =>
              LET node == NodeAt(input.json, input.keys)
              IN  /\ node.t \in {"absent", "object", "array"} => output.value = <<>>
                  /\ node.t = "string" => output.value = node.s

\* The instance of the document is a string: [instance, id] gives nothing.
C26_Witness ==
    /\ input.f = "FindRecursive" /\ output.done
    /\ input.json = Obj1("instance", JString(<<"t","p">>))
    /\ input.keys = <<"instance", "id">>
    /\ output.value = <<>>

\* The base-10 representation of the integer v.
DecimalOf(v) == IF v.neg THEN <<"-">> \o MagDigits(v.mag) ELSE MagDigits(v.mag)

\* The node is an integer of the document.
IntegerNode(node) == node.t \in {"number_integer", "number_unsigned"}

\* C27: when the node at the end of the path is a number, Lookup returns its
\* canonical base-10 integer representation: for every integer value the
\* decimal digits of that same value, with no wrap-around or change of value.
C27_NumberKeepsItsValue ==
    (input.f = "FindRecursive" /\ output.done) =>
        LET node == NodeAt(input.json, input.keys)
        IN  IntegerNode(node) => output.value = DecimalOf(node.n)

\* What holds of the code: the digits are those of the value for every
\* integer from -2^63 to 2^63 - 1, and those of the value less 2^64 from 2^63
\* on.
C27_NumberBelowTwoTo63 ==
    (input.f = "FindRecursive" /\ output.done) =>
        LET node == NodeAt(input.json, input.keys)
        IN  IntegerNode(node) =>
                IF node.n.mag[1] >= 2^15 /\ ~node.n.neg
                THEN output.value = <<"-">> \o MagDigits(Complement64(node.n.mag))
                ELSE output.value = DecimalOf(node.n)

\* The instance id of the tests keeps its nineteen digits.
C27_TestId ==
    /\ input.f = "FindRecursive" /\ output.done
    /\ input.keys = <<"instance", "id">>
    /\ NodeAt(input.json, input.keys).n.mag = <<3624, 55584, 54099, 50628>>
    /\ output.value = <<"1","0","2","0","3","0","4","0","5","0","6","0","7","0","8",
                        "0","9","0","0">>

\* The instance id 12345678901234567890 comes out negative.
C27_Wrapped ==
    /\ input.f = "FindRecursive" /\ output.done
    /\ input.keys = <<"instance", "id">>
    /\ NodeAt(input.json, input.keys).n.mag = <<43860, 43404, 60191, 2770>>
    /\ output.value = <<"-","6","1","0","1","0","6","5","1","7","2","4","7","4","9",
                        "8","3","7","2","6">>

\* The platform variables in the order of their precedence.
PlatformOrder == <<"KUBERNETES_SERVICE_HOST", "FUNCTION_TARGET", "K_CONFIGURATION",
                   "GAE_SERVICE">>

MachineTypeEmpty(doc) ==
    LET node == NodeAt(doc, <<"instance", "machineType">>)
    IN  \/ node.t \in {"absent", "object", "array", "null"}
        \/ node.t = "string" /\ node.s = <<>>

\* C29: when none of the four platform environment variables is set and
\* Lookup(doc, [instance, machineType]) is empty, a successful detection adds
\* no platform-specific attribute: the result holds only cloud.provider and,
\* if non-empty, cloud.account.id, and the detection still counts as a
\* success and is cached.
C29_NoBranchProviderOnly ==
    \A t \in threads :
        (Parsed(t) /\ NoPlatformVariable(env) /\ MachineTypeEmpty(result[t].json)) =>
            LET projectId == NodeAt(result[t].json, <<"project", "projectId">>)
                account == projectId.t = "string" /\ projectId.s # <<>>
            IN  /\ DOMAIN ret[t] =
                       {"cloud.provider"} \cup
                       (IF account THEN {"cloud.account.id"} ELSE {})
                /\ ret[t]["cloud.provider"] = <<"gcp">>
                /\ account => ret[t]["cloud.account.id"] = projectId.s
                /\ ~Failed(t) /\ successes >= 1 /\ failures = 0 /\ logged[t] = <<>>
                /\ attributes_ = ret[t] /\ ~Uncomputed(attributes_)

\* The document of the test HandlesBadJson whose machineType is an object, no
\* platform variable set: the pair is returned and cached.
C29_Witness ==
    /\ Parsed(1) /\ result[1].json = DocWrongStructure
    /\ NoPlatformVariable(env)
    /\ DOMAIN ret[1] = {"cloud.provider", "cloud.account.id"}
    /\ attributes_ = ret[1] /\ successes = 1

\* C30: in the legacy form of the fetcher, every response whose HTTP status
\* is outside 200..299 is folded into a retryable failure: no response with a
\* non-2xx status ever yields Success, whatever its headers and body.
C30_LegacyNon2xxRetryable ==
    (/\ output.done
     /\ input.res.state = "Response"
     /\ ~(input.res.status \in 200..299)) =>
        /\ output.result.error # <<>>
        /\ output.result.retry
        /\ output.result.json = JNull

\* What holds of the code: the status plays no part in the outcome of the
\* legacy form, which is that of the same response with status 200.
C30_LegacyStatusIgnored ==
    (output.done /\ input.res.state = "Response") =>
        output.result = LegacyQmsOnce([input.res EXCEPT !.status = 200])

\* A 404 answer with the expected headers and a valid document is a Success.
C30_Legacy404Success ==
    /\ output.done
    /\ input.res = Answer("Response", 404, HeadersGood, DocGce)
    /\ output.result.error = <<>> /\ ~output.result.retry
    /\ output.result.json = DocGce

\* The calls of the threads never overlapped: they were serialized.
Serialized == ~overlapped

\* C31: Detect() is not safe for unserialized concurrent first use: two
\* threads that call it before any success is cached can both pass the
\* Uncomputed check and each run its own fetch loop, so that more than one
\* fetch sequence ends in success and the cache is written more than once;
\* this happens only when calls overlap: when calls are serialized, at most
\* one fetch sequence ever ends in success.
C31_SerializedOneSuccessfulFetch ==
    /\ Serialized => writes <= 1
    /\ writes <= Cardinality(threads)
    /\ \A t \in threads :
          pc[t] \in {"loop", "onretry", "finish"} =>
              (Uncomputed(attributes_) \/ overlapped)

\* Both threads passed the check, the first was answered with the document
\* of Compute Engine and the second with that of Kubernetes Engine: two
\* successful fetches, two writes of the cache, two different results.
C31_Witness ==
    /\ overlapped /\ writes = 2 /\ requests = 2 /\ calls = 2
    /\ Returned(1) /\ Returned(2)
    /\ result[1].json = DocGce /\ result[2].json = DocGke
    /\ DOMAIN ret[1] # {} /\ DOMAIN ret[2] # {} /\ ret[1] # ret[2]

\* The platforms a platform-specific key may appear with.
PlatformsOf(key) ==
    CASE key = "k8s.cluster.name" -> {<<"gcp_kubernetes_engine">>}
      [] key \in {"faas.name", "faas.version", "faas.instance"} ->
             {<<"gcp_cloud_functions">>, <<"gcp_cloud_run">>, <<"gcp_app_engine">>}
      [] key \in {"host.type", "host.name"} -> {<<"gcp_compute_engine">>}
      [] key = "host.id" -> {<<"gcp_kubernetes_engine">>, <<"gcp_compute_engine">>}

PlatformSpecificKeys == {"k8s.cluster.name", "faas.name", "faas.version",
                         "faas.instance", "host.type", "host.name", "host.id"}

\* The attribute set attrs names one platform and its keys agree with it.
PlatformConsistent(attrs) ==
    /\ "cloud.platform" \in DOMAIN attrs =>
           \E i \in 1..5 : attrs["cloud.platform"] = PlatformNames[i]
    /\ \A key \in PlatformSpecificKeys \cap DOMAIN attrs :
           /\ "cloud.platform" \in DOMAIN attrs
           /\ attrs["cloud.platform"] \in PlatformsOf(key)

\* C32: in every attribute set produced, cloud.platform has at most one
\* value, taken from the five gcp_* platform names, and the platform-specific
\* keys agree with it; no platform-specific key appears without
\* cloud.platform.
C32_PlatformKeysAgree ==
    /\ PlatformConsistent(attributes_)
    /\ \A t \in threads : PlatformConsistent(ret[t])

\* App Engine on a document that has an instance id: faas.instance comes from
\* GAE_INSTANCE, and there is no host.id.
C32_Witness ==
    /\ Parsed(1) /\ result[1].json = DocGce
    /\ ret[1]["cloud.platform"] = <<"gcp_app_engine">>
    /\ "faas.instance" \in DOMAIN ret[1] /\ "host.id" \notin DOMAIN ret[1]
    /\ attributes_ = ret[1]

C33_Counts ==
    \A t \in threads :
        /\ asked[t] <= attempts[t] /\ granted[t] <= asked[t]
        /\ pc[t] = "onretry" =>
              /\ attempts[t] = asked[t] + 1
              /\ OutcomeOf(response[t]) = "RetryableFailure"
        /\ pc[t] = "loop" => attempts[t] = granted[t] /\ asked[t] = granted[t]
        /\ (attempts[t] > 0 /\ pc[t] \in {"finish", "done"}) =>
              attempts[t] = granted[t] + 1

C33_Step ==
    \A t \in threads :
        /\ CallsOnRetry(t) =>
              /\ attempts[t] = asked[t] + 1
              /\ KindOf(result[t]) = "RetryableFailure"
              /\ OutcomeOf(response[t]) = "RetryableFailure"
              /\ attempts'[t] = attempts[t]
        /\ slept' # slept =>
              /\ Len(slept') = Len(slept) + 1
              /\ \E u \in threads :
                    /\ CallsOnRetry(u)
                    /\ granted'[u] = granted[u] + 1
                    /\ pc'[u] = "loop"
        /\ pc[t] \in {"finish", "done", "idle"} => slept' = slept

\* C33: the retry policy is consulted only immediately after an attempt that
\* ended in a retryable failure, never after a success or a fatal failure and
\* never before the first attempt; in one Detect() call the number of fetch
\* attempts equals one plus the number of policy calls that returned true, and
\* no backoff sleep follows the final attempt: every sleep belongs to a
\* granted retry, which another attempt follows.
C33_PolicyOnlyAfterRetryable == []C33_Counts /\ [][C33_Step]_vars

\* The default policy: four attempts, three granted retries with their three
\* sleeps, and a refusal without a sleep.
C33_Witness ==
    /\ retry_.kind = "DefaultRetry" /\ Failed(1)
    /\ attempts[1] = 4 /\ asked[1] = 4 /\ granted[1] = 3
    /\ Len(slept) = 3

\* The default policy has refused a retry: its cursor is at the end.
Exhausted == retry_.kind = "DefaultRetry" /\ retry_.it_ = Len(backoffs_) + 1

C34_Total ==
    retry_.kind = "DefaultRetry" =>
        /\ Len(slept) <= 3
        /\ retry_.it_ = Len(slept) + 1
        /\ \A t \in threads : granted[t] <= Len(slept)

C34_Step ==
    retry_.kind = "DefaultRetry" =>
        /\ retry_'.kind = "DefaultRetry"
        /\ retry_'.it_ >= retry_.it_
        /\ Exhausted => Exhausted'
        /\ \A t \in threads :
              CallsOnRetry(t) =>
                  /\ granted'[t] = granted[t] + 1 <=>
                         (Len(slept') = Len(slept) + 1 /\ retry_'.it_ = retry_.it_ + 1)
                  /\ Exhausted => granted'[t] = granted[t] /\ pc'[t] = "finish"

\* C34: the default retry policy's cursor only moves forward and is never
\* reset: over the whole lifetime of one policy instance it returns true at
\* most three times in total, and once it has returned false it returns false
\* on every later call; a detector holds one policy instance for its
\* lifetime, so the retries granted across all its Detect() calls are at most
\* three (each granted retry is one delay slept, one step of the cursor).
C34_CursorNeverReset == []C34_Total /\ [][C34_Step]_vars

\* The first call used two retries and met a fatal failure; the second call
\* got the one retry left and was then refused.
C34_Witness ==
    /\ retry_.kind = "DefaultRetry" /\ calls = 2 /\ failures = 2
    /\ Failed(1) /\ result[1].retry
    /\ attempts[1] = 2 /\ granted[1] = 1 /\ asked[1] = 2
    /\ slept = <<1, 2, 4>> /\ Exhausted

\* A fetch sequence of the detector has ended in success.
HasSucceeded == writes >= 1

C35_Encoding ==
    /\ HasSucceeded <=> ~Uncomputed(attributes_)
    /\ HasSucceeded <=> firstSuccess[1]
    /\ HasSucceeded =>
          /\ "cloud.provider" \in DOMAIN attributes_
          /\ attributes_["cloud.provider"] = <<"gcp">>
          /\ writes = 1
          /\ requests = requestsAtFirstSuccess
          /\ \A t \in threads : pc[t] \in {"idle", "done"}
    /\ ~HasSucceeded => attributes_ = EmptyAttributes /\ successes = 0

C35_Step ==
    /\ HasSucceeded => (requests' = requests /\ attributes_' = attributes_)
    /\ HasSucceeded' /\ ~HasSucceeded =>
           \E t \in threads : pc[t] = "finish" /\ OutcomeOf(response[t]) = "Success"

\* C35: the detector represents Uncomputed as an empty cached attribute set,
\* and this encoding is faithful: after any successful fetch the stored set
\* is non-empty (it always holds cloud.provider), so a detector that has
\* succeeded once is never mistaken for Uncomputed and never fetches again,
\* and the stored set is empty in every state reached without a success.
C35_EmptyMeansUncomputed == []C35_Encoding /\ [][C35_Step]_vars

\* The smallest valid document, {"project": {}}: the stored set holds
\* cloud.provider alone, and the second call is answered from it.
C35_Witness ==
    /\ calls = 2 /\ successes = 2 /\ requests = 1 /\ writes = 1
    /\ Returned(1) /\ attempts[1] = 0
    /\ attributes_ = SetAttribute(EmptyAttributes, "cloud.provider", <<"gcp">>)
    /\ ret[1] = attributes_

====
